---- MODULE Spec2Model ----
(***************************************************************************)
(* Run session manager (JSCompilerPane.tsx) and execution realm            *)
(* (runnerSrcDoc.ts) of the Coompiler playground.                          *)
(*                                                                         *)
(* The host side is a React 19 component.  Every step below is one task of *)
(* the host's or the realm's event loop.  run() is called from a click or  *)
(* keydown handler; React flushes the state updates, the commit (the       *)
(* iframe keyed by iframeKey is replaced) and the passive effect that      *)
(* re-registers onMessage with the new activeRunId before the task ends,   *)
(* so the action run covers all of them.                                   *)
(***************************************************************************)
EXTENDS Integers, Sequences, FiniteSets, TLC

----------------------------------------------------------------------------
(* Bounds of the exploration *)

\* run ids are 1..MaxRunId; the first is the key of the iframe mounted at start
MaxRunId == 3
\* messages that running code and other windows post, in total
MaxPosts == 1
\* the longest args array of the payloads given to the parser
MaxArgs == 2
\* collections given to the inspector have up to MAX_ITEMS + MaxOver entries
MaxOver == 2
\* and plain objects up to MaxSyms symbol-keyed properties
MaxSyms == 2
\* the longest chain of nested objects given to the inspector
MaxChain == 5
\* files that createFile makes, in total
MaxFiles == 2
\* calls of the workspace hook's API, in total
MaxCalls == 3
\* the entries of parts that getNodePath's model keeps
MaxParts == 3
\* the calls of walk the stack of the page has room for
MaxStack == 4

----------------------------------------------------------------------------
(* Values *)

\* the empty string as a run id ('' is falsy in `msg.runId &&` and `|| ''`)
EmptyRunId == 0
RunIds == 1..MaxRunId
\* event.source of a message that does not come from a realm's window
ForeignWindow == 0
\* stack === undefined
NoStack == "undefined"

ConsoleLevel == {"log", "info", "warn", "error", "debug"}
\* editor texts
Codes == {"codeA", "codeB"}
\* levels, argument lists, messages and stacks the explored user code produces
EmitLevels == {"log"}
EmitArgs == {<<"a", "b">>}
EmitErrors == {<<"RUNTIME_ERROR", "stk">>, <<"UNHANDLED_REJECTION", NoStack>>}

\* crypto.randomUUID(): a token never returned before
makeRunId(next) == next

RECURSIVE JoinWith(_, _)
JoinWith(pieces, sep) ==
    IF Len(pieces) = 0 THEN <<>>
    ELSE IF Len(pieces) = 1 THEN <<pieces[1]>>
    ELSE <<pieces[1], sep>> \o JoinWith(Tail(pieces), sep)

\* args.map(...).join(' ') ; the realm has already turned every arg into a string
formatArgs(args) == JoinWith(args, " ")

\* a payload crossing the boundary, with the window it came from and its origin
Payload(type, level, args, message, stack, runId) ==
    [type |-> type, level |-> level, args |-> args, message |-> message,
     stack |-> stack, runId |-> runId]

ReadyPayload == Payload("READY", "", <<>>, "", NoStack, EmptyRunId)
JunkPayload == Payload("JUNK", "", <<>>, "", NoStack, EmptyRunId)

MessageEvent(data, source, origin) == [data |-> data, source |-> source, origin |-> origin]

\* parseRunnerMessage returned null
NullMsg == Payload("null", "", <<>>, "", NoStack, EmptyRunId)

\* A JavaScript value as the structured clone hands it to the host: t is its
\* kind, s the text of a string, items the elements of an array.
JS(t, s, items) == [t |-> t, s |-> s, items |-> items]
Undefined == JS("undefined", "", <<>>)
JSNull == JS("null", "", <<>>)
Str(s) == JS("string", s, <<>>)
Num == JS("number", "", <<>>)
Arr(items) == JS("array", "", items)
Obj == JS("object", "", <<>>)

\* event.data: its own kind t, the value of every property the parser reads
\* (Undefined when the property is absent) and one property no wire shape has
Raw(t, type, level, args, message, stack, runId, extra) ==
    [t |-> t, type |-> type, level |-> level, args |-> args, message |-> message,
     stack |-> stack, runId |-> runId, extra |-> extra]

\* a RunnerToParentMessage; a property the object literal does not have is Undefined
Message(type, level, args, message, stack, runId) ==
    [type |-> type, level |-> level, args |-> args, message |-> message,
     stack |-> stack, runId |-> runId]

\* the null that parseRunnerMessage returns
NoMessage == Message(JSNull, Undefined, Undefined, Undefined, Undefined, Undefined)

\* !!v && typeof v === 'object'
isRecord(v) == v.t \in {"object", "array"}

\* mutant: the error shapes are accepted without a runId
parseRunnerMessage_anyRunId(v) ==
    IF ~isRecord(v) THEN NoMessage
    ELSE IF v.type = Str("READY")
    THEN Message(v.type, Undefined, Undefined, Undefined, Undefined, Undefined)
    ELSE IF v.type = Str("CONSOLE")
    THEN IF /\ v.level \in {Str(l) : l \in ConsoleLevel}
            /\ v.args.t = "array"
            /\ v.runId.t = "string"
         THEN Message(v.type, v.level, v.args, Undefined, Undefined, v.runId)
         ELSE NoMessage
    ELSE IF v.type \in {Str("RUNTIME_ERROR"), Str("UNHANDLED_REJECTION")}
    THEN IF v.message.t # "string" THEN NoMessage
         ELSE IF v.stack # Undefined /\ v.stack.t # "string" THEN NoMessage
         ELSE Message(v.type, Undefined, Undefined, v.message, v.stack, v.runId)
    ELSE NoMessage

\* mutant: a CONSOLE payload is accepted only when every element of args is a string
parseRunnerMessage_stringArgs(v) ==
    IF ~isRecord(v) THEN NoMessage
    ELSE IF v.type = Str("READY")
    THEN Message(v.type, Undefined, Undefined, Undefined, Undefined, Undefined)
    ELSE IF v.type = Str("CONSOLE")
    THEN IF /\ v.level \in {Str(l) : l \in ConsoleLevel}
            /\ v.args.t = "array"
            /\ \A i \in 1..Len(v.args.items) : v.args.items[i].t = "string"
            /\ v.runId.t = "string"
         THEN Message(v.type, v.level, v.args, Undefined, Undefined, v.runId)
         ELSE NoMessage
    ELSE IF v.type \in {Str("RUNTIME_ERROR"), Str("UNHANDLED_REJECTION")}
    THEN IF v.message.t # "string" \/ v.runId.t # "string" THEN NoMessage
         ELSE IF v.stack # Undefined /\ v.stack.t # "string" THEN NoMessage
         ELSE Message(v.type, Undefined, Undefined, v.message, v.stack, v.runId)
    ELSE NoMessage

\* mutant: the stack is dropped from the message that is returned
parseRunnerMessage_noStack(v) ==
    IF ~isRecord(v) THEN NoMessage
    ELSE IF v.type = Str("READY")
    THEN Message(v.type, Undefined, Undefined, Undefined, Undefined, Undefined)
    ELSE IF v.type = Str("CONSOLE")
    THEN IF /\ v.level \in {Str(l) : l \in ConsoleLevel}
            /\ v.args.t = "array"
            /\ v.runId.t = "string"
         THEN Message(v.type, v.level, v.args, Undefined, Undefined, v.runId)
         ELSE NoMessage
    ELSE IF v.type \in {Str("RUNTIME_ERROR"), Str("UNHANDLED_REJECTION")}
    THEN IF v.message.t # "string" \/ v.runId.t # "string" THEN NoMessage
         ELSE IF v.stack # Undefined /\ v.stack.t # "string" THEN NoMessage
         ELSE Message(v.type, Undefined, Undefined, v.message, Undefined, v.runId)
    ELSE NoMessage

\* parseRunnerMessage(v)
parseRunnerMessage(v) ==
    IF ~isRecord(v) THEN NoMessage
    ELSE IF v.type = Str("READY")
    THEN Message(v.type, Undefined, Undefined, Undefined, Undefined, Undefined)
    ELSE IF v.type = Str("CONSOLE")
    THEN IF /\ v.level \in {Str(l) : l \in ConsoleLevel}
            /\ v.args.t = "array"
            /\ v.runId.t = "string"
         THEN Message(v.type, v.level, v.args, Undefined, Undefined, v.runId)
         ELSE NoMessage
    ELSE IF v.type \in {Str("RUNTIME_ERROR"), Str("UNHANDLED_REJECTION")}
    THEN IF v.message.t # "string" \/ v.runId.t # "string" THEN NoMessage
         ELSE IF v.stack # Undefined /\ v.stack.t # "string" THEN NoMessage
         ELSE Message(v.type, Undefined, Undefined, v.message, v.stack, v.runId)
    ELSE NoMessage

\* the text of a run id: '' or the token
RunIdText(k) == IF k = EmptyRunId THEN "" ELSE ToString(k)
RunIdOf(text) == CHOOSE k \in {EmptyRunId} \cup RunIds : RunIdText(k) = text

\* the object behind a payload of the run session: only the properties of
\* its shape are present
Wire(p) ==
    IF p.type = "CONSOLE"
    THEN Raw("object", Str(p.type), Str(p.level),
             Arr([i \in 1..Len(p.args) |-> Str(p.args[i])]),
             Undefined, Undefined, Str(RunIdText(p.runId)), Undefined)
    ELSE IF p.type \in {"RUNTIME_ERROR", "UNHANDLED_REJECTION"}
    THEN Raw("object", Str(p.type), Undefined, Undefined, Str(p.message),
             IF p.stack = NoStack THEN Undefined ELSE Str(p.stack),
             Str(RunIdText(p.runId)), Undefined)
    ELSE Raw("object", Str(p.type), Undefined, Undefined, Undefined, Undefined,
             Undefined, Undefined)

\* the message parseRunnerMessage returned, as a payload of the run session
Unwire(m) ==
    IF m = NoMessage THEN NullMsg
    ELSE Payload(m.type.s, m.level.s,
                 [i \in 1..Len(m.args.items) |-> m.args.items[i].s],
                 m.message.s,
                 IF m.stack = Undefined THEN NoStack ELSE m.stack.s,
                 IF m.runId = Undefined THEN EmptyRunId ELSE RunIdOf(m.runId.s))

\* const msg = parseRunnerMessage(event.data) in onMessage
parsePayload(data) == Unwire(parseRunnerMessage(Wire(data)))

\* the banner line of run()
Banner(runId) ==
    [kind |-> "console", level |-> "info", text |-> <<"=== Run ", runId, " ===">>,
     runId |-> runId]

ConsoleLine(msg) ==
    [kind |-> "console", level |-> msg.level, text |-> formatArgs(msg.args),
     runId |-> msg.runId]

\* mutant: an unhandled rejection is shown like a runtime error
ErrorLine_noPrefix(msg) ==
    LET headline == <<msg.message>>
        details == IF msg.stack # NoStack /\ msg.stack # ""
                   THEN <<"\n", msg.stack>> ELSE <<>>
    IN [kind |-> "error", level |-> "", text |-> headline \o details,
        runId |-> msg.runId]

\* the line of a RUNTIME_ERROR or UNHANDLED_REJECTION message
ErrorLine(msg) ==
    LET headline == IF msg.type = "UNHANDLED_REJECTION"
                    THEN <<"Unhandled rejection: ", msg.message>>
                    ELSE <<msg.message>>
        details == IF msg.stack # NoStack /\ msg.stack # ""
                   THEN <<"\n", msg.stack>> ELSE <<>>
    IN [kind |-> "error", level |-> "", text |-> headline \o details,
        runId |-> msg.runId]

\* mutant: only the origin of the event is checked
FromFrame_originOnly(event, frameWindow) == event.origin \in {"null", "self"}

\* the source and origin checks at the top of onMessage
FromFrame(event, frameWindow) ==
    /\ event.source = frameWindow
    /\ event.origin \in {"null", "self"}

\* mutant: the activity filter is missing
StaleRun_none(msg, active) == FALSE

\* the activity filter: 'runId' in msg && msg.runId && msg.runId !== activeRunId
StaleRun(msg, active) ==
    /\ msg.runId # EmptyRunId
    /\ msg.runId # active

\* a freshly mounted iframe: document not yet loaded, no listener, no run id
FreshRealm(key) ==
    [key |-> key, loaded |-> FALSE, RUN_ID |-> EmptyRunId, inbox |-> <<>>,
     running |-> FALSE]

\* window.__RUN_ID__ || ''
RealmRunId(r) == r.RUN_ID

\* post(msg): window.parent.postMessage(msg, '*') from the realm's window
post(queue, r, data) == Append(queue, MessageEvent(data, r.key, "null"))

----------------------------------------------------------------------------
(* Browser storage, the editor workspace (useWorkspace.ts) and the theme of *)
(* JSCompilerPane                                                           *)

DRAFT_KEY == "vscode_editor_workspace_draft_v1"
SAVED_KEY == "vscode_editor_workspace_saved_v1"
THEME_STORAGE_KEY == "jscompiler_theme"
LEGACY_THEME_MODE_STORAGE_KEY == "jscompiler_theme_mode"
StorageKeys == {DRAFT_KEY, SAVED_KEY, THEME_STORAGE_KEY, LEGACY_THEME_MODE_STORAGE_KEY}

\* What getItem returns: null for a key that is not there (NoItem), or the
\* string stored.  kind is "json" for a string JSON.parse accepts, value then
\* holds what it parses to; kind is "text" for any other string.
NoItem == [kind |-> "null", value |-> <<>>]
Item(text) == [kind |-> "text", value |-> <<text>>]

\* JSON.stringify(value)
stringify(value) == [kind |-> "json", value |-> <<value>>]

\* a workspace with its root folder and one file of the given content
WorkspaceState(rootId, content) ==
    [rootId |-> rootId, nodes |-> [root |-> "folder", file |-> content]]
defaultWorkspace == WorkspaceState("root", "readme")

\* safeParseState(raw): <<>> is null
safeParseState(raw) ==
    IF raw.kind # "json" THEN <<>>
    ELSE LET parsed == raw.value[1]
         IN IF "rootId" \notin DOMAIN parsed \/ "nodes" \notin DOMAIN parsed THEN <<>>
            ELSE IF parsed.rootId \notin DOMAIN parsed.nodes THEN <<>>
            ELSE <<parsed>>

\* parseUserTheme(saved): <<>> is null
parseUserTheme(saved) ==
    IF saved \in {Item("dark"), Item("light")} THEN saved.value ELSE <<>>

\* a ?? b
Coalesce(a, b) == IF a # <<>> THEN a ELSE b

\* The React state outside the run session: state and savedRef of
\* useWorkspace, userTheme of JSCompilerPane.  mounted and themed tell that
\* the hook and the pane have rendered, raised that an exception left a
\* render or a handler, ideal what the last operation would have left in
\* memory had no write to the storage failed and had every failed read
\* found nothing.
App(mounted, state, savedRef, themed, userTheme, raised, ideal) ==
    [mounted |-> mounted, state |-> state, savedRef |-> savedRef, themed |-> themed,
     userTheme |-> userTheme, raised |-> raised, ideal |-> ideal]
InMemory(state, savedRef, userTheme) ==
    [state |-> state, savedRef |-> savedRef, userTheme |-> userTheme]
\* before the first render
Closed ==
    App(FALSE, defaultWorkspace, defaultWorkspace, FALSE, <<>>, FALSE,
        InMemory(defaultWorkspace, defaultWorkspace, <<>>))
NoStorage == [k \in StorageKeys |-> NoItem]

----------------------------------------------------------------------------
VARIABLES
    code,           \* editor text
    output,         \* OutputLine[]
    iframeKey,      \* key of the mounted iframe
    iframeReady,
    activeRunId,
    pendingRunRef,  \* <<>> (null) or <<[code, runId]>>
    nextRunId,      \* the next token makeRunId returns
    realm,          \* the realm inside the mounted iframe
    hostQueue,      \* message events queued for the host window, FIFO
    posts,          \* how many messages running code and other windows have posted
    dispatchLog,    \* history: the RUN messages the host has posted
    readyLog,       \* history: the windows whose READY the host has acted on, in order
    execLog,        \* history: the RUN messages whose code a realm has executed
    overtaken,      \* history: run ids still staged when a later run() was called
    lateSeen,       \* history: where messages of earlier runs handled by the host came from
    cleared,        \* history: clear() has run since the last run()
    lastOp,         \* history: the handler that ran last and Len(output) before it,
                    \* the event it handled when it was onMessage
    emitLog,        \* history: what the mounted realm has posted to the host, in order,
                    \* since the last clear() (what was in flight then included)
    arg,            \* the input of the function under study (parser, inspector)
    ret,            \* its result, Pending until it has been applied
    app,            \* the React state of the workspace hook and of the theme
    localStorage,   \* window.localStorage: key -> item
    workspace,      \* the node objects of the workspace and the states that hold them
    tabs,           \* the editor groups of the workspace page: open tabs, active tabs
    walk            \* where a call of getNodePath or listFiles is

vars == <<code, output, iframeKey, iframeReady, activeRunId, pendingRunRef,
          nextRunId, realm, hostQueue, posts,
          dispatchLog, readyLog, execLog, overtaken, lateSeen, cleared, lastOp,
          emitLog, arg, ret, app, localStorage, workspace, tabs, walk>>

\* the variables of the run session
session == <<code, output, iframeKey, iframeReady, activeRunId, pendingRunRef,
             nextRunId, realm, hostQueue, posts,
             dispatchLog, readyLog, execLog, overtaken, lateSeen, cleared, lastOp,
             emitLog>>

\* the variables of the function under study
pure == <<arg, ret>>

\* the tree of the workspace, the editor groups and the walks of the tree
page == <<workspace, tabs, walk>>

\* the workspace, the theme and the storage, and the workspace page
kept == <<app, localStorage, page>>

\* the workspace page has not been opened
Unopened == <<>>

Pending == <<>>

hostVars == <<code, output, iframeKey, iframeReady, activeRunId, pendingRunRef,
              nextRunId>>

history == <<dispatchLog, readyLog, execLog, overtaken, lateSeen, cleared, emitLog>>

Op(name, before) == [name |-> name, before |-> before]
Other == Op("other", 0)
\* the host's message listener ran last, on this event
Heard(event, before) == [name |-> "message", before |-> before, event |-> event]

\* the run session after the first render of the page, nobody has clicked yet
FirstRender ==
    /\ code = "codeA"
    /\ output = <<>>
    /\ iframeKey = makeRunId(1)
    /\ iframeReady = FALSE
    /\ activeRunId = makeRunId(1)
    /\ pendingRunRef = <<>>
    /\ nextRunId = 2
    /\ realm = FreshRealm(makeRunId(1))
    /\ hostQueue = <<>>
    /\ posts = 0
    /\ dispatchLog = <<>>
    /\ readyLog = <<>>
    /\ execLog = <<>>
    /\ overtaken = {}
    /\ lateSeen = {}
    /\ cleared = FALSE
    /\ lastOp = Other
    /\ emitLog = <<>>

\* the page after its first render; the workspace and the storage, which the
\* run session never touches, are left as they are before
Mounted ==
    /\ FirstRender
    /\ app = Closed
    /\ localStorage = NoStorage
    /\ workspace = Unopened
    /\ tabs = Unopened
    /\ walk = Unopened

Init ==
    /\ Mounted
    /\ arg = Pending
    /\ ret = Pending

----------------------------------------------------------------------------
(* Host: JSCompilerPane *)

\* MonacoPane onChange={setCode}
setCode(c) ==
    /\ c # code
    /\ code' = c
    /\ UNCHANGED <<pure, kept>>
    /\ lastOp' = Other
    /\ UNCHANGED <<output, iframeKey, iframeReady, activeRunId, pendingRunRef,
                   nextRunId, realm, hostQueue, posts, history>>

\* mutant: run() posts the request to the new iframe at once instead of staging it
run_eager ==
    /\ nextRunId <= MaxRunId
    /\ LET runId == makeRunId(nextRunId) IN
        /\ output' = <<Banner(runId)>>
        /\ iframeReady' = FALSE
        /\ activeRunId' = runId
        /\ pendingRunRef' = <<>>
        /\ iframeKey' = runId
        /\ realm' = [FreshRealm(runId) EXCEPT
                        !.inbox = <<[type |-> "RUN", code |-> code, runId |-> runId]>>]
        /\ dispatchLog' = Append(dispatchLog, [realm |-> runId, runId |-> runId])
        /\ nextRunId' = nextRunId + 1
    /\ overtaken' = overtaken \cup {pendingRunRef[i].runId : i \in 1..Len(pendingRunRef)}
    /\ cleared' = FALSE
    /\ emitLog' = <<>>
    /\ UNCHANGED <<pure, kept>>
    /\ lastOp' = Op("run", Len(output))
    /\ UNCHANGED <<code, hostQueue, posts, readyLog, execLog, lateSeen>>

\* mutant: run() keeps a request that is still staged (pendingRunRef.current ??= ...)
run_keepsOlder ==
    /\ nextRunId <= MaxRunId
    /\ LET runId == makeRunId(nextRunId) IN
        /\ output' = <<Banner(runId)>>
        /\ iframeReady' = FALSE
        /\ activeRunId' = runId
        /\ pendingRunRef' = IF pendingRunRef # <<>> THEN pendingRunRef
                            ELSE <<[code |-> code, runId |-> runId]>>
        /\ iframeKey' = runId
        /\ realm' = FreshRealm(runId)
        /\ nextRunId' = nextRunId + 1
    /\ overtaken' = overtaken \cup {pendingRunRef[i].runId : i \in 1..Len(pendingRunRef)}
    /\ cleared' = FALSE
    /\ emitLog' = <<>>
    /\ UNCHANGED <<pure, kept>>
    /\ lastOp' = Op("run", Len(output))
    /\ UNCHANGED <<code, hostQueue, posts, dispatchLog, readyLog, execLog, lateSeen>>

\* mutant: run() does not change the iframe key, so the mounted realm is reused
run_reusesRealm ==
    /\ nextRunId <= MaxRunId
    /\ LET runId == makeRunId(nextRunId) IN
        /\ output' = <<Banner(runId)>>
        /\ iframeReady' = FALSE
        /\ activeRunId' = runId
        /\ pendingRunRef' = <<[code |-> code, runId |-> runId]>>
        /\ nextRunId' = nextRunId + 1
    /\ overtaken' = overtaken \cup {pendingRunRef[i].runId : i \in 1..Len(pendingRunRef)}
    /\ cleared' = FALSE
    /\ emitLog' = <<>>
    /\ UNCHANGED <<pure, kept>>
    /\ lastOp' = Op("run", Len(output))
    /\ UNCHANGED <<code, iframeKey, realm, hostQueue, posts, dispatchLog, readyLog,
                   execLog, lateSeen>>

\* mutant: run() appends the banner to the log it finds
run_appendsBanner ==
    /\ nextRunId <= MaxRunId
    /\ LET runId == makeRunId(nextRunId) IN
        /\ output' = Append(output, Banner(runId))
        /\ iframeReady' = FALSE
        /\ activeRunId' = runId
        /\ pendingRunRef' = <<[code |-> code, runId |-> runId]>>
        /\ iframeKey' = runId
        /\ realm' = FreshRealm(runId)
        /\ nextRunId' = nextRunId + 1
    /\ overtaken' = overtaken \cup {pendingRunRef[i].runId : i \in 1..Len(pendingRunRef)}
    /\ cleared' = FALSE
    /\ emitLog' = <<>>
    /\ UNCHANGED <<pure, kept>>
    /\ lastOp' = Op("run", Len(output))
    /\ UNCHANGED <<code, hostQueue, posts, dispatchLog, readyLog, execLog, lateSeen>>

\* mutant: run() leaves the ready flag as it is
run_keepsReady ==
    /\ nextRunId <= MaxRunId
    /\ LET runId == makeRunId(nextRunId) IN
        /\ output' = <<Banner(runId)>>
        /\ iframeReady' = iframeReady
        /\ activeRunId' = runId
        /\ pendingRunRef' = <<[code |-> code, runId |-> runId]>>
        /\ iframeKey' = runId
        /\ realm' = FreshRealm(runId)
        /\ nextRunId' = nextRunId + 1
    /\ overtaken' = overtaken \cup {pendingRunRef[i].runId : i \in 1..Len(pendingRunRef)}
    /\ cleared' = FALSE
    /\ emitLog' = <<>>
    /\ UNCHANGED <<pure, kept>>
    /\ lastOp' = Op("run", Len(output))
    /\ UNCHANGED <<code, hostQueue, posts, dispatchLog, readyLog, execLog, lateSeen>>

\* run(), the re-render it causes (iframe remounted under the new key) and
\* the effect that re-registers onMessage
run ==
    /\ nextRunId <= MaxRunId
    /\ LET runId == makeRunId(nextRunId) IN
        /\ output' = <<Banner(runId)>>
        /\ iframeReady' = FALSE
        /\ activeRunId' = runId
        /\ pendingRunRef' = <<[code |-> code, runId |-> runId]>>
        /\ iframeKey' = runId
        /\ realm' = FreshRealm(runId)
        /\ nextRunId' = nextRunId + 1
    /\ overtaken' = overtaken \cup {pendingRunRef[i].runId : i \in 1..Len(pendingRunRef)}
    /\ cleared' = FALSE
    /\ emitLog' = <<>>
    /\ UNCHANGED <<pure, kept>>
    /\ lastOp' = Op("run", Len(output))
    /\ UNCHANGED <<code, hostQueue, posts, dispatchLog, readyLog, execLog, lateSeen>>

\* history: what the mounted realm has posted and the host has not handled yet
InFlight ==
    LET own == SelectSeq(hostQueue, LAMBDA event : event.source = iframeKey)
    IN [i \in 1..Len(own) |-> own[i].data]

\* mutant: clear() keeps the banner line
clear_keepsBanner ==
    /\ output' = IF output # <<>> THEN <<output[1]>> ELSE <<>>
    /\ cleared' = TRUE
    /\ emitLog' = InFlight
    /\ UNCHANGED <<pure, kept>>
    /\ lastOp' = IF lastOp.name \in {"clear", "clear2"}
                 THEN Op("clear2", lastOp.before)
                 ELSE Op("clear", Len(output))
    /\ UNCHANGED <<code, iframeKey, iframeReady, activeRunId, pendingRunRef,
                   nextRunId, realm, hostQueue, posts, dispatchLog, readyLog,
                   execLog, overtaken, lateSeen>>

\* mutant: clear() also drops the request that is staged
clear_forgetsPending ==
    /\ output' = <<>>
    /\ pendingRunRef' = <<>>
    /\ cleared' = TRUE
    /\ emitLog' = InFlight
    /\ UNCHANGED <<pure, kept>>
    /\ lastOp' = IF lastOp.name \in {"clear", "clear2"}
                 THEN Op("clear2", lastOp.before)
                 ELSE Op("clear", Len(output))
    /\ UNCHANGED <<code, iframeKey, iframeReady, activeRunId,
                   nextRunId, realm, hostQueue, posts, dispatchLog, readyLog,
                   execLog, overtaken, lateSeen>>

\* clear()
clear ==
    /\ output' = <<>>
    /\ cleared' = TRUE
    /\ emitLog' = InFlight
    /\ UNCHANGED <<pure, kept>>
    /\ lastOp' = IF lastOp.name \in {"clear", "clear2"}
                 THEN Op("clear2", lastOp.before)
                 ELSE Op("clear", Len(output))
    /\ UNCHANGED <<code, iframeKey, iframeReady, activeRunId, pendingRunRef,
                   nextRunId, realm, hostQueue, posts, dispatchLog, readyLog,
                   execLog, overtaken, lateSeen>>

\* mutant: the READY branch does not empty the slot after posting the request
onReady_keepsPending(event) ==
    /\ iframeReady' = TRUE
    /\ IF pendingRunRef # <<>>
       THEN LET pending == pendingRunRef[1]
                runMsg == [type |-> "RUN", code |-> pending.code, runId |-> pending.runId]
            IN /\ realm' = [realm EXCEPT !.inbox = Append(@, runMsg)]
               /\ dispatchLog' = Append(dispatchLog,
                                        [realm |-> iframeKey, runId |-> pending.runId])
               /\ pendingRunRef' = pendingRunRef
       ELSE UNCHANGED <<realm, dispatchLog, pendingRunRef>>
    /\ readyLog' = Append(readyLog, event.source)
    /\ UNCHANGED <<output>>

\* mutant: the READY branch posts the text the editor holds when READY arrives
onReady_readsEditor(event) ==
    /\ iframeReady' = TRUE
    /\ IF pendingRunRef # <<>>
       THEN LET pending == pendingRunRef[1]
                runMsg == [type |-> "RUN", code |-> code, runId |-> pending.runId]
            IN /\ realm' = [realm EXCEPT !.inbox = Append(@, runMsg)]
               /\ dispatchLog' = Append(dispatchLog,
                                        [realm |-> iframeKey, runId |-> pending.runId])
               /\ pendingRunRef' = <<>>
       ELSE UNCHANGED <<realm, dispatchLog, pendingRunRef>>
    /\ readyLog' = Append(readyLog, event.source)
    /\ UNCHANGED <<output>>

\* the READY branch of onMessage
onReady(event) ==
    /\ iframeReady' = TRUE
    /\ IF pendingRunRef # <<>>
       THEN LET pending == pendingRunRef[1]
                runMsg == [type |-> "RUN", code |-> pending.code, runId |-> pending.runId]
            IN /\ realm' = [realm EXCEPT !.inbox = Append(@, runMsg)]
               /\ dispatchLog' = Append(dispatchLog,
                                        [realm |-> iframeKey, runId |-> pending.runId])
               /\ pendingRunRef' = <<>>
       ELSE UNCHANGED <<realm, dispatchLog, pendingRunRef>>
    /\ readyLog' = Append(readyLog, event.source)
    /\ UNCHANGED <<output>>

\* mutant: new lines are put in front of the log
onOutput_prepends(msg) ==
    /\ IF StaleRun(msg, activeRunId) THEN UNCHANGED output
       ELSE IF msg.type = "CONSOLE" THEN output' = <<ConsoleLine(msg)>> \o output
       ELSE IF msg.type \in {"RUNTIME_ERROR", "UNHANDLED_REJECTION"}
            THEN output' = <<ErrorLine(msg)>> \o output
       ELSE UNCHANGED output
    /\ UNCHANGED <<iframeReady, readyLog, realm, dispatchLog, pendingRunRef>>

\* mutant: the newest line is shown on top, right under the first line
onOutput_newestFirst(msg) ==
    /\ IF StaleRun(msg, activeRunId) \/ msg.type = "READY" THEN UNCHANGED output
       ELSE LET line == IF msg.type = "CONSOLE" THEN ConsoleLine(msg) ELSE ErrorLine(msg)
            IN output' = IF output = <<>> THEN <<line>>
                         ELSE <<output[1], line>> \o Tail(output)
    /\ UNCHANGED <<iframeReady, readyLog, realm, dispatchLog, pendingRunRef>>

\* mutant: a new line takes the place of the last line of the log
onOutput_replacesLast(msg) ==
    /\ IF StaleRun(msg, activeRunId) \/ msg.type = "READY" THEN UNCHANGED output
       ELSE LET line == IF msg.type = "CONSOLE" THEN ConsoleLine(msg) ELSE ErrorLine(msg)
            IN output' = IF output = <<>> THEN <<line>>
                         ELSE SubSeq(output, 1, Len(output) - 1) \o <<line>>
    /\ UNCHANGED <<iframeReady, readyLog, realm, dispatchLog, pendingRunRef>>

\* mutant: only CONSOLE messages are appended
onOutput_consoleOnly(msg) ==
    /\ IF StaleRun(msg, activeRunId) THEN UNCHANGED output
       ELSE IF msg.type = "CONSOLE" THEN output' = Append(output, ConsoleLine(msg))
       ELSE UNCHANGED output
    /\ UNCHANGED <<iframeReady, readyLog, realm, dispatchLog, pendingRunRef>>

\* the branches of onMessage after the READY branch
onOutput(msg) ==
    /\ IF StaleRun(msg, activeRunId) THEN UNCHANGED output
       ELSE IF msg.type = "CONSOLE" THEN output' = Append(output, ConsoleLine(msg))
       ELSE IF msg.type \in {"RUNTIME_ERROR", "UNHANDLED_REJECTION"}
            THEN output' = Append(output, ErrorLine(msg))
       ELSE UNCHANGED output
    /\ UNCHANGED <<iframeReady, readyLog, realm, dispatchLog, pendingRunRef>>

\* history: a message of an earlier run reaches the host
Late(event) ==
    IF event.data.type \in {"CONSOLE", "RUNTIME_ERROR", "UNHANDLED_REJECTION"}
       /\ event.data.runId # EmptyRunId /\ event.data.runId < activeRunId
    THEN {IF event.source = iframeKey THEN "frame" ELSE "elsewhere"}
    ELSE {}

\* onMessage(event): the host's window 'message' listener
onMessage ==
    /\ hostQueue # <<>>
    /\ LET event == Head(hostQueue)
           msg == parsePayload(event.data)
       IN /\ IF ~FromFrame(event, iframeKey) \/ msg = NullMsg
             THEN UNCHANGED <<output, iframeReady, readyLog, realm, dispatchLog,
                              pendingRunRef>>
             ELSE IF msg.type = "READY" THEN onReady(event)
             ELSE onOutput(msg)
          /\ lateSeen' = lateSeen \cup Late(event)
    /\ hostQueue' = Tail(hostQueue)
    /\ UNCHANGED <<pure, kept>>
    /\ lastOp' = Heard(Head(hostQueue), Len(output))
    /\ UNCHANGED <<code, iframeKey, activeRunId, nextRunId, posts, execLog,
                   overtaken, cleared, emitLog>>

----------------------------------------------------------------------------
(* Realm: the script of runnerSrcDoc *)

realmFrame == <<code, output, iframeKey, iframeReady, activeRunId, pendingRunRef,
                nextRunId, dispatchLog, readyLog, overtaken, lateSeen, cleared>>

\* the realm's handlers that post nothing to the host
silent == <<hostQueue, emitLog>>

\* mutant: READY is posted before the listeners are installed
RealmBoot_readyFirst ==
    /\ ~realm.loaded
    /\ hostQueue = <<>>
    /\ realm' = realm
    /\ hostQueue' = post(hostQueue, realm, ReadyPayload)
    /\ emitLog' = Append(emitLog, ReadyPayload)
    /\ UNCHANGED <<pure, kept>>
    /\ lastOp' = Other
    /\ UNCHANGED <<realmFrame, posts, execLog>>

\* the bootstrap script: wrappers and listeners installed, then post READY
RealmBoot ==
    /\ ~realm.loaded
    /\ realm' = [realm EXCEPT !.loaded = TRUE]
    /\ hostQueue' = post(hostQueue, realm, ReadyPayload)
    /\ emitLog' = Append(emitLog, ReadyPayload)
    /\ UNCHANGED <<pure, kept>>
    /\ lastOp' = Other
    /\ UNCHANGED <<realmFrame, posts, execLog>>

\* the realm's 'message' listener
RealmOnMessage ==
    /\ realm.loaded
    /\ realm.inbox # <<>>
    /\ LET data == Head(realm.inbox) IN
        IF data.type # "RUN"
        THEN /\ realm' = [realm EXCEPT !.inbox = Tail(@)]
             /\ UNCHANGED <<hostQueue, execLog, emitLog>>
        ELSE \E throws \in BOOLEAN :
             LET r == [realm EXCEPT !.inbox = Tail(@), !.RUN_ID = data.runId,
                                    !.running = TRUE]
                 thrown == Payload("RUNTIME_ERROR", "", <<>>, "err", "stk", RealmRunId(r))
             IN /\ realm' = r
                /\ execLog' = Append(execLog, [realm |-> realm.key, runId |-> data.runId])
                /\ hostQueue' = IF throws THEN post(hostQueue, r, thrown) ELSE hostQueue
                /\ emitLog' = IF throws THEN Append(emitLog, thrown) ELSE emitLog
    /\ UNCHANGED <<pure, kept>>
    /\ lastOp' = Other
    /\ UNCHANGED <<realmFrame, posts>>

\* console[level](...args) called by the running code
ConsoleCall(level, args) ==
    /\ realm.running
    /\ posts < MaxPosts
    /\ posts' = posts + 1
    /\ hostQueue' = post(hostQueue, realm,
                         Payload("CONSOLE", level, args, "", NoStack, RealmRunId(realm)))
    /\ emitLog' = Append(emitLog,
                         Payload("CONSOLE", level, args, "", NoStack, RealmRunId(realm)))
    /\ UNCHANGED <<pure, kept>>
    /\ lastOp' = Other
    /\ UNCHANGED <<realmFrame, realm, execLog>>

\* window 'error' (uncaught error in a callback of the running code) and
\* 'unhandledrejection'
ErrorEvent(type, stack) ==
    /\ realm.running
    /\ posts < MaxPosts
    /\ posts' = posts + 1
    /\ hostQueue' = post(hostQueue, realm,
                         Payload(type, "", <<>>, "boom", stack, RealmRunId(realm)))
    /\ emitLog' = Append(emitLog,
                         Payload(type, "", <<>>, "boom", stack, RealmRunId(realm)))
    /\ UNCHANGED <<pure, kept>>
    /\ lastOp' = Other
    /\ UNCHANGED <<realmFrame, realm, execLog>>

\* the running code assigns window.__RUN_ID__
UserSetRunId(v) ==
    /\ realm.running
    /\ v # realm.RUN_ID
    /\ realm' = [realm EXCEPT !.RUN_ID = v]
    /\ UNCHANGED <<pure, kept>>
    /\ lastOp' = Other
    /\ UNCHANGED <<realmFrame, silent, posts, execLog>>

\* the running code calls window.parent.postMessage itself
UserPostParent(data) ==
    /\ realm.running
    /\ posts < MaxPosts
    /\ posts' = posts + 1
    /\ hostQueue' = post(hostQueue, realm, data)
    /\ emitLog' = Append(emitLog, data)
    /\ UNCHANGED <<pure, kept>>
    /\ lastOp' = Other
    /\ UNCHANGED <<realmFrame, realm, execLog>>

\* the running code calls window.postMessage on its own window
UserPostSelf(data) ==
    /\ realm.running
    /\ posts < MaxPosts
    /\ posts' = posts + 1
    /\ realm' = [realm EXCEPT !.inbox = Append(@, data)]
    /\ UNCHANGED <<pure, kept>>
    /\ lastOp' = Other
    /\ UNCHANGED <<realmFrame, silent, execLog>>

\* another window posts to the host
ForeignPost(data, origin) ==
    /\ posts < MaxPosts
    /\ posts' = posts + 1
    /\ hostQueue' = Append(hostQueue, MessageEvent(data, ForeignWindow, origin))
    /\ UNCHANGED <<pure, kept>>
    /\ lastOp' = Other
    /\ UNCHANGED <<hostVars, realm, history>>

\* what the explored user code posts to its own window
SelfPayloads ==
    {[type |-> "RESET", code |-> "", runId |-> EmptyRunId],
     [type |-> "RUN", code |-> "codeB", runId |-> EmptyRunId]}

\* the values the explored user code assigns to window.__RUN_ID__:
\* the empty string and the id of the run before this realm's
ForgedRunIds == {EmptyRunId} \cup {k \in RunIds : k + 1 = realm.key}

Next ==
    \/ \E c \in Codes : setCode(c)
    \/ run
    \/ clear
    \/ onMessage
    \/ RealmBoot
    \/ RealmOnMessage
    \/ \E level \in EmitLevels, args \in EmitArgs : ConsoleCall(level, args)
    \/ \E e \in EmitErrors : ErrorEvent(e[1], e[2])
    \/ \E v \in ForgedRunIds : UserSetRunId(v)
    \/ \E data \in {ReadyPayload, JunkPayload} : UserPostParent(data)
    \/ \E data \in SelfPayloads : UserPostSelf(data)
    \/ \E origin \in {"null", "other"} :
          ForeignPost(Payload("CONSOLE", "log", <<"f">>, "", NoStack, activeRunId), origin)

Spec == Init /\ [][Next]_vars

----------------------------------------------------------------------------
(* Properties of the run session *)

\* the host handles the message event at the head of its queue in this step
Handles == hostQueue # <<>> /\ hostQueue' = Tail(hostQueue)

\* run() is the step taken
RunStep == nextRunId' = nextRunId + 1

\* C1: a message that carries the id of an earlier run and reaches the host
\* after a later run has started is never appended to the output log: no line
\* of the log carries the id of a run older than the active one.
C1_StaleRunExcluded ==
    \A i \in 1..Len(output) :
        output[i].runId = EmptyRunId \/ output[i].runId >= activeRunId

\* messages of an earlier run have reached the host both from the mounted
\* realm and from elsewhere (a replaced realm)
C1_Witness == lateSeen = {"frame", "elsewhere"}

\* C2: every accepted message carries the active run id, the empty string
\* included: every line of the log carries the run id that is active.
C2_ActivityFilter ==
    \A i \in 1..Len(output) : output[i].runId = activeRunId

\* C3 as stated: once a run has started, a non-empty log begins with the
\* banner of the active run.
C3_BannerFirst ==
    (nextRunId > 2 /\ output # <<>>) => output[1] = Banner(activeRunId)

\* C3 amended: a non-empty log begins with the banner of the active run as
\* long as clear() has not been called since that run started.
C3_BannerFirstUnlessCleared ==
    (output # <<>> /\ ~cleared) => output[1] = Banner(activeRunId)

C3_Witness == ~cleared /\ Len(output) >= 2

\* C4: the RUN handler of a realm runs code at most once in the realm's life.
C4_AtMostOneRun ==
    \A k \in RunIds : Cardinality({i \in DOMAIN execLog : execLog[i].realm = k}) <= 1

\* C5: the host posts RUN to a realm only after it has handled a READY from
\* that realm, and only while handling a READY from the mounted realm; a RUN
\* of the host never waits in a realm whose listener is not installed.
C5_RunAfterReady ==
    /\ [](/\ \A i \in DOMAIN dispatchLog :
                \E j \in DOMAIN readyLog : readyLog[j] = dispatchLog[i].realm
          /\ (realm.inbox # <<>> => realm.loaded))
    /\ [][dispatchLog' # dispatchLog =>
            /\ Handles
            /\ Head(hostQueue).data.type = "READY"
            /\ Head(hostQueue).source = iframeKey]_vars

C5_Witness == dispatchLog # <<>> /\ execLog # <<>>

\* C6: the slot holds at most one request, the one of the newest run; a
\* request that was still staged when a later run started is never posted to
\* a realm and never executed.
C6_SingleSlot ==
    /\ Len(pendingRunRef) <= 1
    /\ \A i \in DOMAIN pendingRunRef : pendingRunRef[i].runId = activeRunId
    /\ \A i \in DOMAIN dispatchLog : dispatchLog[i].runId \notin overtaken
    /\ \A i \in DOMAIN realm.inbox : realm.inbox[i].runId \notin overtaken
    /\ \A i \in DOMAIN execLog : execLog[i].runId \notin overtaken

\* a request was overtaken and the newer one has been posted and executed
C6_Witness ==
    \E o \in overtaken : \E i \in DOMAIN execLog : execLog[i].runId > o

\* C7: when the host handles the READY of the mounted realm while a request is
\* staged, the step posts exactly that request (its code and run id) to the
\* realm and empties the slot; with an empty slot a READY posts nothing; no
\* run id is posted twice.
C7_DispatchOnReady ==
    /\ [](\A i, j \in DOMAIN dispatchLog :
             dispatchLog[i].runId = dispatchLog[j].runId => i = j)
    /\ [][(Handles /\ Head(hostQueue).data.type = "READY"
                   /\ Head(hostQueue).source = iframeKey) =>
            /\ pendingRunRef' = <<>>
            /\ iframeReady'
            /\ IF pendingRunRef # <<>>
               THEN /\ pendingRunRef[1].runId = iframeKey
                    /\ realm' = [realm EXCEPT !.inbox =
                                   Append(@, [type |-> "RUN",
                                              code |-> pendingRunRef[1].code,
                                              runId |-> pendingRunRef[1].runId])]
               ELSE realm' = realm]_vars

\* the staged request was posted and a later READY of the same realm was handled
C7_Witness ==
    /\ dispatchLog # <<>>
    /\ \E i, j \in DOMAIN readyLog : i < j /\ readyLog[i] = readyLog[j]

\* C8: every run() mounts a fresh realm keyed by the new run id; every request
\* is posted to, and executed by, the realm keyed by its own run id.
C8_FreshRealmPerRun ==
    /\ [](/\ \A i \in DOMAIN dispatchLog : dispatchLog[i].realm = dispatchLog[i].runId
          /\ \A i \in DOMAIN execLog :
                execLog[i].runId # EmptyRunId => execLog[i].realm = execLog[i].runId)
    /\ [][RunStep =>
            /\ iframeKey' = nextRunId
            /\ iframeKey' # iframeKey
            /\ realm' = FreshRealm(nextRunId)]_vars

\* two realms have each executed the request of their own run
C8_Witness ==
    /\ Len(execLog) >= 2
    /\ \E i, j \in DOMAIN execLog : execLog[i].realm # execLog[j].realm

\* C9: right after run() the log is exactly the banner of the new run id, that
\* id is active and was never used before, the ready flag is false and the
\* slot holds the request with the editor text and that id.
C9_AfterRun ==
    lastOp.name = "run" =>
        /\ output = <<Banner(activeRunId)>>
        /\ output[1].kind = "console" /\ output[1].level = "info"
        /\ activeRunId = nextRunId - 1
        /\ ~iframeReady
        /\ pendingRunRef = <<[code |-> code, runId |-> activeRunId]>>

\* run() was called on a log of several lines
C9_Witness == lastOp.name = "run" /\ lastOp.before >= 2

\* C10: right after clear() the log is empty; a clear() that follows a clear()
\* changes nothing.
C10_ClearIdempotent ==
    /\ [](lastOp.name \in {"clear", "clear2"} => output = <<>>)
    /\ [][(lastOp.name \in {"clear", "clear2"} /\ lastOp'.name = "clear2") =>
            UNCHANGED <<code, output, iframeKey, iframeReady, activeRunId,
                        pendingRunRef, nextRunId, realm, hostQueue>>]_vars

\* clear() was called twice in a row on a log of several lines
C10_Witness == lastOp.name = "clear2" /\ lastOp.before >= 2

\* the lines the host makes of the messages it accepts from a sequence of payloads
RECURSIVE LinesOf(_)
LinesOf(log) ==
    IF log = <<>> THEN <<>>
    ELSE LET msg == parsePayload(Head(log))
         IN IF msg = NullMsg \/ msg.type = "READY" \/ StaleRun(msg, activeRunId)
            THEN LinesOf(Tail(log))
            ELSE <<IF msg.type = "CONSOLE" THEN ConsoleLine(msg) ELSE ErrorLine(msg)>>
                 \o LinesOf(Tail(log))

\* the lines of the log under the banner
Shown == IF output # <<>> /\ ~cleared THEN Tail(output) ELSE output

\* C11: within one run the lines of the log are, in the same order, the lines
\* of a run of consecutive accepted messages the realm posted: no line is
\* out of the order of emission (the host queue is FIFO).
C11_EmissionOrder ==
    LET emitted == LinesOf(emitLog)
    IN \E a \in 0..Len(emitted), b \in 0..Len(emitted) :
          Shown = SubSeq(emitted, a + 1, b)

\* two different lines of one run are in the log under its banner
C11_Witness == ~cleared /\ Len(output) >= 3 /\ output[2] # output[3]

\* the event the host handles in this step, and the message parsed from it
Handled == Head(hostQueue)
\* it does not come from the window of the mounted realm, or fails validation
Refused == Handled.source # iframeKey \/ parsePayload(Handled.data) = NullMsg
\* onMessage returns before it has looked at the type of the message
Rejected == Refused \/ Handled.origin \notin {"null", "self"}
OutputTypes == {"CONSOLE", "RUNTIME_ERROR", "UNHANDLED_REJECTION"}

\* the events of the mounted realm that wait in the host's queue
Waiting == {i \in DOMAIN hostQueue : hostQueue[i].source = iframeKey}

\* C25: the bootstrap of a realm posts READY exactly once, as the first
\* message of the realm and together with the installation of the listeners:
\* a realm that has not booted has posted nothing, runs nothing and holds no
\* request; once installed the listener stays; the host posts a request only
\* to a realm whose listener is installed.
C25_ReadyOnceAtBoot ==
    /\ [](~realm.loaded =>
            /\ Waiting = {}
            /\ emitLog = <<>>
            /\ realm.inbox = <<>>
            /\ ~realm.running)
    /\ [][/\ (realm.loaded /\ realm'.key = realm.key) => realm'.loaded
          /\ (~realm.loaded /\ realm'.loaded) =>
                /\ hostQueue' = Append(hostQueue,
                                       MessageEvent(ReadyPayload, realm.key, "null"))
                /\ emitLog' = <<ReadyPayload>>
          /\ dispatchLog' # dispatchLog => realm.loaded /\ realm'.loaded]_vars

\* a realm has booted, its READY came first and it has executed the request
\* the host posted in response
C25_Witness ==
    /\ realm.running
    /\ emitLog # <<>> /\ emitLog[1] = ReadyPayload
    /\ \E i \in DOMAIN execLog :
          execLog[i].realm = realm.key /\ execLog[i].runId = realm.key

\* the run id of the RUN message the mounted realm executed last
LatestRun ==
    LET own == {i \in DOMAIN execLog : execLog[i].realm = realm.key}
    IN execLog[CHOOSE i \in own : \A j \in own : j <= i].runId

\* C26: every CONSOLE, RUNTIME_ERROR and UNHANDLED_REJECTION message a realm
\* posts carries the run id of the RUN message it received.
C26_CarriesRunId ==
    [][(/\ Len(emitLog') = Len(emitLog) + 1
        /\ SubSeq(emitLog', 1, Len(emitLog)) = emitLog
        /\ emitLog'[Len(emitLog')].type \in OutputTypes)
       => emitLog'[Len(emitLog')].runId = LatestRun']_vars

\* C27: when the host handles an event that fails validation or does not come
\* from the window of the mounted realm, the log, the active run id, the slot
\* and the ready flag stay as they are and nothing is posted to the realm.
C27_RejectedChangesNothing ==
    [][(Handles /\ Refused) =>
          UNCHANGED <<output, activeRunId, pendingRunRef, iframeReady, realm,
                      iframeKey, dispatchLog>>]_vars

\* a well-formed CONSOLE message of the active run from another window was handled
C27_Witness ==
    /\ lastOp.name = "message"
    /\ lastOp.event.source = ForeignWindow
    /\ lastOp.event.origin = "null"
    /\ lastOp.event.data.type = "CONSOLE"
    /\ lastOp.event.data.runId = activeRunId

\* C29: when the host handles a valid CONSOLE, RUNTIME_ERROR or
\* UNHANDLED_REJECTION message of the mounted realm that carries the active
\* run id, exactly one line is appended for it; right after run() no message
\* of the new realm waits, so none can meet a handler of the run before.
C29_NoOutputLost ==
    /\ [][(/\ Handles /\ ~Rejected
           /\ parsePayload(Handled.data).type \in OutputTypes
           /\ parsePayload(Handled.data).runId = activeRunId)
          => /\ Len(output') = Len(output) + 1
             /\ output' = Append(output,
                                 IF parsePayload(Handled.data).type = "CONSOLE"
                                 THEN ConsoleLine(parsePayload(Handled.data))
                                 ELSE ErrorLine(parsePayload(Handled.data)))]_vars
    /\ [](lastOp.name = "run" => Waiting = {})

\* an UNHANDLED_REJECTION of the active run was handled and its line is the last of the log
C29_Witness ==
    /\ lastOp.name = "message"
    /\ lastOp.event.source = iframeKey
    /\ lastOp.event.data.type = "UNHANDLED_REJECTION"
    /\ lastOp.event.data.runId = activeRunId
    /\ Len(output) = lastOp.before + 1
    /\ output[Len(output)] = ErrorLine(lastOp.event.data)

\* C30: the ready flag is false from run() until the host has handled a READY
\* of the realm that run() mounted and true from then until the next run();
\* a READY handled while the slot is empty sets the flag and posts nothing.
C30_ReadyFlag ==
    /\ [](iframeReady <=> \E j \in DOMAIN readyLog : readyLog[j] = iframeKey)
    /\ [][/\ RunStep => ~iframeReady'
          /\ (iframeReady /\ ~RunStep) => iframeReady'
          /\ (Handles /\ ~Rejected /\ parsePayload(Handled.data).type = "READY") =>
                /\ iframeReady'
                /\ pendingRunRef = <<>> =>
                      UNCHANGED <<output, activeRunId, pendingRunRef, realm,
                                  dispatchLog>>]_vars

\* the READY of the realm of a run was handled and dispatched the request,
\* then a second READY of the same realm found the slot empty
C30_Witness ==
    /\ lastOp.name = "message"
    /\ lastOp.event.data.type = "READY"
    /\ lastOp.event.source = iframeKey
    /\ iframeReady
    /\ \E i \in DOMAIN dispatchLog : dispatchLog[i].realm = iframeKey
    /\ Cardinality({j \in DOMAIN readyLog : readyLog[j] = iframeKey}) = 2

\* clear() is the step taken
ClearStep == lastOp'.name \in {"clear", "clear2"} /\ lastOp' # lastOp

\* C31: between two consecutive calls of run() and clear() every step leaves
\* the log as it is or appends exactly one line at its end: the lines it held
\* are neither modified, reordered nor removed.
C31_AppendOnly ==
    [][(~RunStep /\ ~ClearStep) =>
          \/ output' = output
          \/ /\ Len(output') = Len(output) + 1
             /\ SubSeq(output', 1, Len(output)) = output]_vars

\* a line was appended to a log that held the banner and a line already
C31_Witness ==
    /\ lastOp.name = "message"
    /\ lastOp.before >= 2
    /\ Len(output) = lastOp.before + 1
    /\ output[1] = Banner(activeRunId)
    /\ ~cleared

\* the RUN message the READY branch appends to the inbox of the realm in this step
Dispatched == realm'.inbox[Len(realm'.inbox)]

\* C32: run() stages the text the editor holds when it is called together with
\* the id of the banner it shows; an edit leaves the staged request as it is;
\* the READY branch posts the staged text and id, whatever the editor holds then.
C32_CodeAtStartRun ==
    [][/\ RunStep =>
             /\ pendingRunRef' = <<[code |-> code, runId |-> activeRunId']>>
             /\ output' = <<Banner(activeRunId')>>
       /\ code' # code => UNCHANGED <<pendingRunRef, realm, dispatchLog>>
       /\ (~RunStep /\ pendingRunRef' # pendingRunRef) =>
             /\ Handles /\ ~Rejected /\ parsePayload(Handled.data).type = "READY"
             /\ pendingRunRef' = <<>>
             /\ Len(realm'.inbox) = Len(realm.inbox) + 1
             /\ Dispatched = [type |-> "RUN", code |-> pendingRunRef[1].code,
                                runId |-> pendingRunRef[1].runId]]_vars

\* the request of the active run was dispatched in the last step, with a text
\* that the editor no longer holds: it was edited between run() and READY
C32_Witness ==
    /\ lastOp.name = "message"
    /\ lastOp.event.data.type = "READY"
    /\ lastOp.event.source = iframeKey
    /\ realm.inbox # <<>>
    /\ realm.inbox[Len(realm.inbox)].type = "RUN"
    /\ realm.inbox[Len(realm.inbox)].runId = activeRunId
    /\ realm.inbox[Len(realm.inbox)].code # code
    /\ output # <<>> /\ output[1] = Banner(activeRunId)

\* C33: clear() empties the log and changes nothing else of the session: the
\* active run id, the staged request, the mounted realm and the ready flag
\* stay; a message of the active run handled after it is appended.
C33_ClearOnlyOutput ==
    [][/\ ClearStep =>
             /\ output' = <<>>
             /\ UNCHANGED <<activeRunId, pendingRunRef, iframeKey, realm, iframeReady,
                            hostQueue, code, nextRunId>>
       /\ (/\ cleared /\ Handles /\ ~Rejected
           /\ parsePayload(Handled.data).type \in OutputTypes
           /\ parsePayload(Handled.data).runId = activeRunId)
          => output' = Append(output,
                              IF parsePayload(Handled.data).type = "CONSOLE"
                              THEN ConsoleLine(parsePayload(Handled.data))
                              ELSE ErrorLine(parsePayload(Handled.data)))]_vars

\* the log was cleared while a request was staged, and a message of the active
\* run handled afterwards is the only line of the log
C33_Witness ==
    /\ cleared
    /\ lastOp.name = "message"
    /\ lastOp.event.source = iframeKey
    /\ lastOp.event.data.type = "CONSOLE"
    /\ lastOp.event.data.runId = activeRunId
    /\ lastOp.before = 0
    /\ output = <<ConsoleLine(parsePayload(lastOp.event.data))>>
----------------------------------------------------------------------------
(* parseRunnerMessage on its own: every payload of RawPayloads is parsed once *)

\* the arrays of at most n elements drawn from elems
RECURSIVE ArraysUpTo(_, _)
ArraysUpTo(n, elems) ==
    IF n = 0 THEN {<<>>}
    ELSE LET shorter == ArraysUpTo(n - 1, elems)
         IN shorter \cup {Append(a, e) : a \in {x \in shorter : Len(x) = n - 1},
                                          e \in elems}

TypeValues == {Undefined, Str("READY"), Str("CONSOLE"), Str("RUNTIME_ERROR"),
               Str("UNHANDLED_REJECTION"), Str("RUN"), Num}
LevelValues == {Undefined, Str("log"), Str("debug"), Str("trace"), Num}
ArgsValues == {Undefined, Str("a"), Obj}
              \cup {Arr(a) : a \in ArraysUpTo(MaxArgs, {Str("a"), Num})}
MessageValues == {Undefined, Str("m"), Str(""), Num}
StackValues == {Undefined, Str("s"), JSNull, Num}
RunIdValues == {Undefined, Str("r"), Str(""), Num}
ExtraValues == {Undefined, Str("x")}

\* what may arrive as event.data: primitives, and objects and arrays with any
\* combination of the properties
RawPayloads ==
    {Raw(t, Undefined, Undefined, Undefined, Undefined, Undefined, Undefined, Undefined) :
        t \in {"undefined", "null", "boolean", "number", "string"}}
    \cup {Raw(t, type, level, args, message, stack, runId, extra) :
            t \in {"object", "array"}, type \in TypeValues, level \in LevelValues,
            args \in ArgsValues, message \in MessageValues, stack \in StackValues,
            runId \in RunIdValues, extra \in ExtraValues}

ParserInit ==
    /\ Mounted
    /\ arg \in RawPayloads
    /\ ret = Pending

\* const msg = parseRunnerMessage(event.data)
Parse ==
    /\ ret = Pending
    /\ ret' = <<parseRunnerMessage(arg)>>
    /\ UNCHANGED <<arg, session, kept>>

ParserNext == Parse

ParserSpec == ParserInit /\ [][ParserNext]_vars

Parsed == ret # Pending
Accepted == Parsed /\ ret[1] # NoMessage

ErrorTags == {Str("RUNTIME_ERROR"), Str("UNHANDLED_REJECTION")}
WireTags == {Str("READY"), Str("CONSOLE")} \cup ErrorTags

\* the four kinds of malformed payload
Malformed(v) ==
    \/ ~isRecord(v)
    \/ v.type \notin WireTags
    \/ /\ v.type = Str("CONSOLE")
       /\ Undefined \in {v.level, v.args, v.runId}
    \/ /\ v.type \in ErrorTags
       /\ Undefined \in {v.message, v.runId}
    \/ /\ v.type = Str("CONSOLE")
       /\ \/ v.level \notin {Str(l) : l \in ConsoleLevel}
          \/ v.args.t # "array"
          \/ v.runId.t # "string"
    \/ /\ v.type \in ErrorTags
       /\ \/ v.message.t # "string"
          \/ v.runId.t # "string"

\* C12: a malformed payload (not an object, unknown or missing tag, a
\* required field missing or of the wrong type) is parsed to null.
C12_MalformedIsNull == Parsed /\ Malformed(arg) => ret[1] = NoMessage

\* a CONSOLE payload whose only fault is a runId that is not a string was parsed
C12_Witness ==
    /\ Parsed
    /\ arg.t = "object" /\ arg.type = Str("CONSOLE") /\ arg.level = Str("log")
    /\ arg.args.t = "array" /\ arg.runId = Num

\* the shapes of RunnerToParentMessage as the type declares them (args: unknown[])
DeclaredShape(v) ==
    /\ isRecord(v)
    /\ \/ v.type = Str("READY")
       \/ /\ v.type = Str("CONSOLE")
          /\ v.level \in {Str(l) : l \in ConsoleLevel}
          /\ v.args.t = "array"
          /\ v.runId.t = "string"
       \/ /\ v.type \in ErrorTags
          /\ v.message.t = "string"
          /\ v.runId.t = "string"
          /\ v.stack = Undefined \/ v.stack.t = "string"

\* args: string[]
StringArray(a) == a.t = "array" /\ \A i \in 1..Len(a.items) : a.items[i].t = "string"

\* C13 as stated: a payload is accepted only if it has one of the wire
\* shapes, a CONSOLE payload only if every element of args is a string.
C13_ExactWireShapes ==
    Accepted => /\ DeclaredShape(arg)
                /\ arg.type = Str("CONSOLE") => StringArray(arg.args)

\* C13 amended: a payload is accepted exactly when it has one of the declared
\* shapes, where args is an array of any elements; properties outside the
\* shape do not matter.
C13_AcceptsDeclaredShapes == Parsed => (ret[1] # NoMessage <=> DeclaredShape(arg))

\* a CONSOLE payload with a number among its args and a foreign property was accepted
C13_Witness ==
    /\ Accepted
    /\ arg.type = Str("CONSOLE") /\ ~StringArray(arg.args) /\ arg.extra # Undefined

\* C14: a payload of a declared shape is returned with the same tag and the
\* same values of the fields of its shape; with message and runId strings an
\* error payload is accepted exactly when stack is absent or a string.
C14_SameFields ==
    Parsed =>
      /\ DeclaredShape(arg) =>
            /\ ret[1].type = arg.type
            /\ arg.type = Str("CONSOLE") =>
                  /\ ret[1].level = arg.level
                  /\ ret[1].args = arg.args
                  /\ ret[1].runId = arg.runId
            /\ arg.type \in ErrorTags =>
                  /\ ret[1].message = arg.message
                  /\ ret[1].stack = arg.stack
                  /\ ret[1].runId = arg.runId
      /\ /\ isRecord(arg) /\ arg.type \in ErrorTags
         /\ arg.message.t = "string" /\ arg.runId.t = "string"
         => (ret[1] # NoMessage <=> arg.stack = Undefined \/ arg.stack.t = "string")

\* an error payload with a stack was accepted
C14_Witness ==
    /\ Accepted
    /\ arg.type = Str("UNHANDLED_REJECTION") /\ arg.stack = Str("s")

----------------------------------------------------------------------------
(* The value inspector of the realm: inspectValue and safeInspect *)

MAX_DEPTH == 3
MAX_ITEMS == 50

\* A value of the realm: t is typeof (or "null", or "ref" for an object), s
\* its text, n its number or, for "ref", the identity of the object.
Val(t, s, n) == [t |-> t, s |-> s, n |-> n]
VNull == Val("null", "", 0)
VUndefined == Val("undefined", "", 0)
VStr(s) == Val("string", s, 0)
VNum(n) == Val("number", "", n)
VNaN == Val("number", "NaN", 0)
VInfinity == Val("number", "Infinity", 0)
VBool(b) == Val("boolean", IF b THEN "true" ELSE "false", 0)
VBigInt(n) == Val("bigint", "", n)
VSymbol(description) == Val("symbol", description, 0)
VFunction(name) == Val("function", name, 0)
\* a function whose own property `name` is an accessor that throws
VNamelessFunction == Val("function", "", 1)
Ref(id) == Val("ref", "", id)

\* An entry of an object: an element, an own property, a Map entry or a Set
\* member.  shape is "data", "accessor" or "hole"; val is the value held, or
\* the value the getter would return; key is the key of a Map entry.
Entry(name, ident, shape, val, key, get, set, throws) ==
    [name |-> name, ident |-> ident, shape |-> shape, val |-> val, key |-> key,
     get |-> get, set |-> set, throws |-> throws]
Data(name, val) == Entry(name, TRUE, "data", val, VUndefined, FALSE, FALSE, FALSE)
Quoted(name, val) == Entry(name, FALSE, "data", val, VUndefined, FALSE, FALSE, FALSE)
Accessor(name, get, set, val, throws) ==
    Entry(name, TRUE, "accessor", val, VUndefined, get, set, throws)
Hole == Entry("", TRUE, "hole", VUndefined, VUndefined, FALSE, FALSE, FALSE)
MapEntry(key, val) == Entry("", TRUE, "data", val, key, FALSE, FALSE, FALSE)

\* An object of the heap.  kind selects the branch of inspectValue; items are
\* the elements, string-keyed properties, entries or members in their order;
\* syms the symbol-keyed properties; stack and message the properties an
\* Error is asked for; iso is toISOString() of a Date ("" when the time is
\* NaN); text is String(value) unless toString is "throws"; step is "throws"
\* when the first operation of the branch on the object throws (a trap of a
\* Proxy, an overridden getTime).
Node(kind, items, syms, stack, message, iso, text, toString, step) ==
    [kind |-> kind, items |-> items, syms |-> syms, stack |-> stack,
     message |-> message, iso |-> iso, text |-> text, toString |-> toString,
     step |-> step]
Plain(kind, items, syms, text) ==
    Node(kind, items, syms, Data("stack", VUndefined), Data("message", VUndefined),
         "", text, "ok", "ok")

\* JavaScript truthiness, for `value.stack || value.message || 'Error'`
Truthy(v) ==
    CASE v.t \in {"null", "undefined"} -> FALSE
      [] v.t = "string" -> v.s # ""
      [] v.t = "number" -> v.s = "Infinity" \/ (v.s = "" /\ v.n # 0)
      [] v.t = "boolean" -> v.s = "true"
      [] v.t = "bigint" -> v.n # 0
      [] OTHER -> TRUE

\* quoteString: JSON.stringify(String(value)) puts the text between quotes
quoteString(text) == <<"\"", text, "\"">>

\* the branches of inspectValue for null and the primitive types
inspectPrimitive(v) ==
    CASE v.t = "null" -> <<"null">>
      [] v.t = "string" -> quoteString(v.s)
      [] v.t = "number" -> IF v.s # "" THEN <<v.s>> ELSE <<ToString(v.n)>>
      [] v.t \in {"boolean", "undefined"} -> <<IF v.t = "undefined" THEN "undefined" ELSE v.s>>
      [] v.t = "bigint" -> <<ToString(v.n), "n">>
      [] v.t = "symbol" -> <<"Symbol(", v.s, ")">>

\* What a call has done besides returning: caught are the objects whose
\* inspection fell back to String(value), calls the accessors it invoked,
\* trace the objects it was called on, each with the nesting level, the
\* budget, the in-progress set on entry (path) and when the call ended (left)
\* and the text shown in its place (Expanded when the object was entered).
Expanded == ""
Effects(caught, calls, trace) == [caught |-> caught, calls |-> calls, trace |-> trace]
NoEffects == Effects({}, {}, {})
Both(e, f) ==
    Effects(e.caught \cup f.caught, e.calls \cup f.calls, e.trace \cup f.trace)

\* The outcome of a call: the pieces of the string returned (str), or the
\* value returned when it is not a string (raw), or an exception (threw).
Outcome(out, str, raw, threw, eff) ==
    [out |-> out, str |-> str, raw |-> raw, threw |-> threw, eff |-> eff]
Text(out, eff) == Outcome(out, TRUE, VUndefined, FALSE, eff)
Thrown(eff) == Outcome(<<>>, FALSE, VUndefined, TRUE, eff)
Returned(v, eff) ==
    IF v.t = "string" THEN Text(<<v.s>>, eff) ELSE Outcome(<<>>, FALSE, v, FALSE, eff)

\* reading value[name]: a getter, when there is one, is invoked
Read(id, e) ==
    IF e.shape = "accessor"
    THEN IF e.get
         THEN [val |-> e.val, threw |-> e.throws, calls |-> {<<id, e.name>>}]
         ELSE [val |-> VUndefined, threw |-> FALSE, calls |-> {}]
    ELSE [val |-> e.val, threw |-> FALSE, calls |-> {}]

\* the string a returned value becomes when it is concatenated or joined
Coerce(h, r) ==
    IF r.str THEN [out |-> r.out, threw |-> FALSE]
    ELSE CASE r.raw.t = "symbol" -> [out |-> <<>>, threw |-> TRUE]
           [] r.raw.t = "ref" ->
                IF h[r.raw.n].toString = "throws" THEN [out |-> <<>>, threw |-> TRUE]
                ELSE [out |-> <<h[r.raw.n].text>>, threw |-> FALSE]
           [] r.raw.t = "function" -> [out |-> <<"function ", r.raw.s>>, threw |-> FALSE]
           [] r.raw.t = "bigint" -> [out |-> <<ToString(r.raw.n)>>, threw |-> FALSE]
           [] OTHER -> [out |-> inspectPrimitive(r.raw), threw |-> FALSE]

\* the array `result`, `entries` or `parts` being filled by a loop
Filling(parts, threw, eff) == [parts |-> parts, threw |-> threw, eff |-> eff]
Empty == Filling(<<>>, FALSE, NoEffects)
Push(acc, r) ==
    IF r.threw THEN Filling(acc.parts, TRUE, Both(acc.eff, r.eff))
    ELSE Filling(Append(acc.parts, [out |-> r.out, str |-> r.str, raw |-> r.raw]),
                 acc.threw, Both(acc.eff, r.eff))
\* parts.push(label + inspectValue(...)): the concatenation makes a string
PushText(h, acc, label, r) ==
    IF r.threw \/ Coerce(h, r).threw THEN Filling(acc.parts, TRUE, Both(acc.eff, r.eff))
    ELSE Push(acc, Text(label \o Coerce(h, r).out, r.eff))

\* '... ' + String(rest) + what
Remainder(rest, what) == Text(<<"... ", ToString(rest), what>>, NoEffects)

\* Array.prototype.join: the elements as strings with sep between them,
\* computed on the two halves of parts
RECURSIVE join(_, _, _)
join(h, parts, sep) ==
    IF parts = <<>> THEN [out |-> <<>>, threw |-> FALSE]
    ELSE IF Len(parts) = 1 THEN Coerce(h, parts[1])
    ELSE LET mid == Len(parts) \div 2
             left == join(h, SubSeq(parts, 1, mid), sep)
             right == join(h, SubSeq(parts, mid + 1, Len(parts)), sep)
         IN IF left.threw \/ right.threw THEN [out |-> <<>>, threw |-> TRUE]
            ELSE [out |-> left.out \o <<sep>> \o right.out, threw |-> FALSE]

\* prefix + parts.join(', ') + suffix
Enclosed(h, prefix, acc, suffix) ==
    IF acc.threw \/ join(h, acc.parts, ", ").threw THEN Thrown(acc.eff)
    ELSE Text(prefix \o join(h, acc.parts, ", ").out \o suffix, acc.eff)

Min(a, b) == IF a <= b THEN a ELSE b

\* mutant: no object is ever found in the in-progress set
InProgress_never(id, seen) == FALSE

\* seen.has(value)
InProgress(id, seen) == id \in seen

\* mutant: inspectValue has no finally block
Deleted_never(seen, id) == seen

\* finally { seen.delete(value) }
Deleted(seen, id) == seen \ {id}

\* The in-progress set is one object that every call of an inspection adds to
\* and deletes from: what the calls recorded in eff have added and not taken
\* out again is in the set for every call made after them.
Leaked(eff) == UNION {t.left \ t.path : t \in eff.trace}

\* mutant: every composite out of budget is shown as [Object]
Collapsed_object(node) == "[Object]"

\* Array.isArray(value) ? '[Array]' : '[Object]'
Collapsed(node) == IF node.kind = "array" THEN "[Array]" ELSE "[Object]"

RECURSIVE inspectValue(_, _, _, _, _)
RECURSIVE arrayItems(_, _, _, _, _, _, _, _)
RECURSIVE mapEntries(_, _, _, _, _, _, _, _)
RECURSIVE setMembers(_, _, _, _, _, _, _, _)
RECURSIVE properties(_, _, _, _, _, _, _, _, _, _, _)

\* mutant: the value of a property is read through value[key]
describe_reads(h, id, e, depth, seen, level) ==
    LET got == Read(id, e)
        called == Effects({}, got.calls, {})
    IN IF got.threw THEN Thrown(called)
       ELSE LET r == inspectValue(h, got.val, depth - 1, seen, level + 1)
            IN [r EXCEPT !.eff = Both(@, called)]

\* what follows the label of an own property, from its descriptor
describe(h, id, e, depth, seen, level) ==
    IF e.shape = "data" THEN inspectValue(h, e.val, depth - 1, seen, level + 1)
    ELSE IF e.get /\ e.set THEN Text(<<"[Getter/Setter]">>, NoEffects)
    ELSE IF e.get THEN Text(<<"[Getter]">>, NoEffects)
    ELSE Text(<<"[Setter]">>, NoEffects)

\* the for loop of the Array branch over the indices i..limit, the lower
\* half of the range before the upper half
arrayItems(h, id, i, limit, depth, seen, level, acc) ==
    IF i > limit \/ acc.threw THEN acc
    ELSE IF i < limit
    THEN LET mid == (i + limit) \div 2
         IN arrayItems(h, id, mid + 1, limit, depth, seen, level,
                       arrayItems(h, id, i, mid, depth, seen, level, acc))
    ELSE LET e == h[id].items[i]
             got == Read(id, e)
             read == Filling(acc.parts, got.threw, Both(acc.eff, Effects({}, got.calls, {})))
             next == IF e.shape = "hole" THEN Push(acc, Text(<<"<empty>">>, NoEffects))
                     ELSE IF got.threw THEN read
                     ELSE Push(read, inspectValue(h, got.val, depth - 1,
                                                  seen \cup Leaked(acc.eff), level + 1))
         IN next

\* mutant: the remainder counts every element of the array
arrayResult_countsAll(h, id, depth, seen, level) ==
    LET length == Len(h[id].items)
        result == arrayItems(h, id, 1, Min(length, MAX_ITEMS), depth, seen, level, Empty)
    IN IF result.threw \/ length <= MAX_ITEMS THEN result
       ELSE Push(result, Remainder(length, " more items"))

\* the array `result` of the Array branch before it is joined
arrayResult(h, id, depth, seen, level) ==
    LET length == Len(h[id].items)
        result == arrayItems(h, id, 1, Min(length, MAX_ITEMS), depth, seen, level, Empty)
    IN IF result.threw \/ length <= MAX_ITEMS THEN result
       ELSE Push(result, Remainder(length - MAX_ITEMS, " more items"))

\* value.forEach of a Map, which returns at once when count >= MAX_ITEMS,
\* over the entries i..limit
mapEntries(h, id, i, limit, depth, seen, level, acc) ==
    IF i > limit \/ acc.threw THEN acc
    ELSE IF i < limit
    THEN LET mid == (i + limit) \div 2
         IN mapEntries(h, id, mid + 1, limit, depth, seen, level,
                       mapEntries(h, id, i, mid, depth, seen, level, acc))
    ELSE LET e == h[id].items[i]
             k == inspectValue(h, e.key, depth - 1, seen \cup Leaked(acc.eff), level + 1)
             keyed == Filling(acc.parts, k.threw \/ Coerce(h, k).threw, Both(acc.eff, k.eff))
             next == IF keyed.threw THEN keyed
                     ELSE PushText(h, keyed, Coerce(h, k).out \o <<" => ">>,
                                   inspectValue(h, e.val, depth - 1,
                                                seen \cup Leaked(keyed.eff), level + 1))
         IN next

\* the array `entries` of the Map branch before it is joined
mapResult(h, id, depth, seen, level) ==
    LET size == Len(h[id].items)
        entries == mapEntries(h, id, 1, Min(size, MAX_ITEMS), depth, seen, level, Empty)
    IN IF entries.threw \/ size <= MAX_ITEMS THEN entries
       ELSE Push(entries, Remainder(size - MAX_ITEMS, " more entries"))

\* value.forEach of a Set, over the members i..limit
setMembers(h, id, i, limit, depth, seen, level, acc) ==
    IF i > limit \/ acc.threw THEN acc
    ELSE IF i < limit
    THEN LET mid == (i + limit) \div 2
         IN setMembers(h, id, mid + 1, limit, depth, seen, level,
                       setMembers(h, id, i, mid, depth, seen, level, acc))
    ELSE Push(acc, inspectValue(h, h[id].items[i].val, depth - 1,
                                seen \cup Leaked(acc.eff), level + 1))

\* the array `entries` of the Set branch before it is joined
setResult(h, id, depth, seen, level) ==
    LET size == Len(h[id].items)
        entries == setMembers(h, id, 1, Min(size, MAX_ITEMS), depth, seen, level, Empty)
    IN IF entries.threw \/ size <= MAX_ITEMS THEN entries
       ELSE Push(entries, Remainder(size - MAX_ITEMS, " more entries"))

\* a for loop of the plain-object branch and whether it has reached its break
Looping(acc, broke) == [acc |-> acc, broke |-> broke]

\* one of the two for loops of the plain-object branch, over keys or over
\* symbols, on the entries i..limit; it breaks after pushing the remainder
properties(h, id, entries, symbolic, i, limit, total, depth, seen, level, loop) ==
    IF i > limit \/ loop.broke \/ loop.acc.threw THEN loop
    ELSE IF i < limit
    THEN LET mid == (i + limit) \div 2
         IN properties(h, id, entries, symbolic, mid + 1, limit, total, depth, seen, level,
                       properties(h, id, entries, symbolic, i, mid, total, depth, seen,
                                  level, loop))
    ELSE IF Len(loop.acc.parts) >= MAX_ITEMS
    THEN Looping(Push(loop.acc, Remainder(total - MAX_ITEMS, " more properties")), TRUE)
    ELSE LET acc == loop.acc
             e == entries[i]
             label == IF symbolic THEN <<"[", "Symbol(", e.name, ")", "]">>
                      ELSE IF e.ident THEN <<e.name>>
                      ELSE quoteString(e.name)
             next == IF e.shape = "accessor" /\ ~e.get /\ ~e.set THEN acc
                     ELSE PushText(h, acc, label \o <<": ">>,
                                   describe(h, id, e, depth, seen \cup Leaked(acc.eff),
                                            level))
         IN Looping(next, FALSE)

\* the array `parts` of the plain-object branch before it is joined
objectResult(h, id, depth, seen, level) ==
    LET keys == h[id].items
        symbols == h[id].syms
        total == Len(keys) + Len(symbols)
        named == properties(h, id, keys, FALSE, 1, Len(keys), total, depth, seen, level,
                            Looping(Empty, FALSE)).acc
    IN properties(h, id, symbols, TRUE, 1, Len(symbols), total, depth, seen, level,
                  Looping(named, FALSE)).acc

\* the try block of inspectValue
inspectObject(h, id, depth, seen, level) ==
    LET value == h[id]
        stack == Read(id, value.stack)
        message == Read(id, value.message)
        asked == Effects({}, stack.calls, {})
        askedBoth == Effects({}, stack.calls \cup message.calls, {})
    IN IF value.step = "throws" THEN Thrown(NoEffects)
       ELSE CASE value.kind = "error" ->
                   IF stack.threw THEN Thrown(asked)
                   ELSE IF Truthy(stack.val) THEN Returned(stack.val, asked)
                   ELSE IF message.threw THEN Thrown(askedBoth)
                   ELSE IF Truthy(message.val) THEN Returned(message.val, askedBoth)
                   ELSE Text(<<"Error">>, askedBoth)
              [] value.kind = "date" ->
                   Text(IF value.iso = "" THEN <<"Invalid Date">>
                        ELSE <<"Date ">> \o quoteString(value.iso), NoEffects)
              [] value.kind = "regexp" ->
                   IF value.toString = "throws" THEN Thrown(NoEffects)
                   ELSE Text(<<value.text>>, NoEffects)
              [] value.kind = "array" ->
                   Enclosed(h, <<"[">>, arrayResult(h, id, depth, seen, level), <<"]">>)
              [] value.kind = "map" ->
                   Enclosed(h, <<"Map(", ToString(Len(value.items)), ") {">>,
                            mapResult(h, id, depth, seen, level), <<"}">>)
              [] value.kind = "set" ->
                   Enclosed(h, <<"Set(", ToString(Len(value.items)), ") {">>,
                            setResult(h, id, depth, seen, level), <<"}">>)
              [] OTHER ->
                   Enclosed(h, <<"{">>, objectResult(h, id, depth, seen, level), <<"}">>)

\* inspectValue(value, depth, seen); level counts the descents from the root
inspectValue(h, v, depth, seen, level) ==
    IF v.t = "function"
    THEN IF v = VNamelessFunction THEN Thrown(NoEffects)
         ELSE Text(IF v.s # "" THEN <<"[Function: ", v.s, "]">> ELSE <<"[Function]">>,
                   NoEffects)
    ELSE IF v.t # "ref" THEN Text(inspectPrimitive(v), NoEffects)
    ELSE LET id == v.n
             visit(shown, left) ==
                 Effects({}, {}, {[id |-> id, level |-> level, depth |-> depth,
                                   path |-> seen, shown |-> shown, left |-> left]})
         IN IF InProgress(id, seen) THEN Text(<<"[Circular]">>, visit("[Circular]", seen))
            ELSE IF depth <= 0
            THEN Text(<<Collapsed(h[id])>>, visit(Collapsed(h[id]), seen))
            ELSE LET body == inspectObject(h, id, depth, seen \cup {id}, level)
                     left == Deleted(seen \cup {id} \cup Leaked(body.eff), id)
                     eff == Both(body.eff, visit(Expanded, left))
                 IN IF body.threw
                    THEN Text(IF h[id].toString = "throws" THEN <<"[Unserializable]">>
                              ELSE <<h[id].text>>,
                              Both(eff, Effects({id}, {}, {})))
                    ELSE [body EXCEPT !.eff = eff]

\* the root of an inspection, in the caught set when safeInspect itself falls back
Root == 0

\* safeInspect(value)
\* the try/catch of safeInspect around the outcome r of inspectValue(value, ...)
guarded(h, v, r) ==
    IF ~r.threw THEN r
    ELSE LET text == Coerce(h, Returned(v, NoEffects))
         IN Text(IF text.threw THEN <<"[Unserializable]">> ELSE text.out,
                 Both(r.eff, Effects({Root}, {}, {})))

safeInspect(h, v) == guarded(h, v, inspectValue(h, v, MAX_DEPTH, {}, 0))

----------------------------------------------------------------------------
(* safeInspect on its own: every subject of Subjects is inspected once *)

Subject(heap, root) == [heap |-> heap, root |-> root]

\* String(value) of an ordinary object of each kind
TextOf(kind) ==
    CASE kind = "array" -> "1,2"
      [] kind = "map" -> "[object Map]"
      [] kind = "set" -> "[object Set]"
      [] kind = "error" -> "Error: msg"
      [] kind = "date" -> "Thu Jan 01 1970"
      [] kind = "regexp" -> "/re/"
      [] OTHER -> "[object Object]"

\* one entry of a collection of the given kind holding val
EntryOf(kind, i, val) ==
    IF kind = "map" THEN MapEntry(VNum(i), val) ELSE Quoted(ToString(i), val)

Collections == {"array", "map", "set", "object"}
Sizes == {0, 1, 2} \cup ((MAX_ITEMS - 1)..(MAX_ITEMS + MaxOver))

\* a collection of n numbers, a plain object with s symbol-keyed properties more
Sized(kind, n, s) ==
    Subject(<<Plain(kind, [i \in 1..n |-> EntryOf(kind, i, VNum(i))],
                    [i \in 1..s |-> Data("sym", VNum(i))], TextOf(kind))>>,
            Ref(1))

\* a collection of n entries whose p-th entry is the collection itself
SelfAt(kind, n, p) ==
    Subject(<<Plain(kind, [i \in 1..n |-> EntryOf(kind, i, IF i = p THEN Ref(1) ELSE VNum(i))],
                    <<>>, TextOf(kind))>>,
            Ref(1))

\* the kind of the i-th object of a chain
LinkKind(kind, i) ==
    IF kind # "mixed" THEN kind ELSE IF i % 2 = 1 THEN "array" ELSE "object"

\* objects 1..length, each holding the next; the last holds object `back`,
\* or a number when back = 0
Chain(kind, length, back) ==
    Subject([i \in 1..length |->
                Plain(LinkKind(kind, i),
                      <<EntryOf(LinkKind(kind, i), 1,
                                IF i < length THEN Ref(i + 1)
                                ELSE IF back = 0 THEN VNum(7) ELSE Ref(back))>>,
                      <<>>, TextOf(LinkKind(kind, i)))],
            Ref(1))

\* an array holding the same object twice
Diamond ==
    Subject(<<Plain("array", <<Data("0", Ref(2)), Data("1", Ref(2))>>, <<>>, "1,2"),
              Plain("object", <<Data("a", VNum(1))>>, <<>>, "[object Object]")>>,
            Ref(1))

\* an object held twice without a cycle: by an element and by a property of
\* another element, or as a key and as the value of one Map entry
Shared ==
    {Subject(<<Plain("array", <<Data("0", Ref(2)), Data("1", Ref(3))>>, <<>>, "1,2"),
               Plain("object", <<Data("p", Ref(3))>>, <<>>, "[object Object]"),
               Plain("object", <<Data("a", VNum(1))>>, <<>>, "[object Object]")>>,
             Ref(1)),
     Subject(<<Plain("map", <<MapEntry(Ref(2), Ref(2))>>, <<>>, "[object Map]"),
               Plain("set", <<Quoted("1", VNum(1))>>, <<>>, "[object Set]")>>,
             Ref(1))}

\* an Error with the given stack and message properties
ErrorNode(stack, message, toString) ==
    Node("error", <<>>, <<>>, stack, message, "", "Error: msg", toString, "ok")

StackEntries ==
    {Data("stack", VStr("stk")), Data("stack", VStr("")), Data("stack", VUndefined),
     Data("stack", VNum(42)), Data("stack", VSymbol("s")), Data("stack", Ref(2)),
     Accessor("stack", TRUE, FALSE, VStr("stk"), FALSE),
     Accessor("stack", TRUE, FALSE, VStr("stk"), TRUE)}
MessageEntries ==
    {Data("message", VStr("msg")), Data("message", VStr("")),
     Accessor("message", TRUE, FALSE, VStr("msg"), TRUE)}

\* an Error alone, or as the only element, member or property of a collection
Errors ==
    {Subject(<<ErrorNode(stack, message, toString),
               Plain("object", <<>>, <<>>, "[object Object]")>>, Ref(1)) :
        stack \in StackEntries, message \in MessageEntries, toString \in {"ok", "throws"}}
    \cup {Subject(<<ErrorNode(stack, Data("message", VStr("msg")), "ok"),
                    Plain("object", <<>>, <<>>, "[object Object]"),
                    Node(kind, <<EntryOf(kind, 1, Ref(1))>>, <<>>, Data("stack", VUndefined),
                         Data("message", VUndefined), "", TextOf(kind), toString, "ok")>>,
                  Ref(3)) :
        stack \in StackEntries, kind \in Collections, toString \in {"ok", "throws"}}

\* a plain object with a data property and every sort of accessor
Accessors ==
    Plain("object",
          <<Data("d", VNum(1)), Accessor("g", TRUE, FALSE, VNum(2), FALSE),
            Accessor("boom", TRUE, FALSE, VNum(3), TRUE),
            Accessor("s", FALSE, TRUE, VUndefined, FALSE),
            Accessor("gs", TRUE, TRUE, VNum(4), FALSE),
            Quoted("not an identifier", VStr("x"))>>,
          <<Accessor("sym", TRUE, FALSE, VNum(5), TRUE), Data("tag", VStr("y"))>>,
          "[object Object]")

\* an object whose inspection fails at its first step, or at String(value) too
Failing(kind, toString) ==
    Node(kind, <<>>, <<>>, Data("stack", VUndefined), Data("message", VUndefined),
         "", TextOf(kind), toString, "throws")

\* val alone, and as the only entry of each kind of collection, at one and at
\* two levels of nesting
Nested(heap, val) ==
    {Subject(heap, val)}
    \cup {Subject(heap \o <<Plain(kind, <<EntryOf(kind, 1, val)>>, <<>>, TextOf(kind))>>,
                  Ref(Len(heap) + 1)) : kind \in Collections}
    \cup {Subject(heap \o <<Plain(kind, <<EntryOf(kind, 1, val)>>, <<>>, TextOf(kind)),
                             Plain("array", <<Data("0", Ref(Len(heap) + 1))>>, <<>>, "1,2")>>,
                  Ref(Len(heap) + 2)) : kind \in Collections}

Hostile ==
    Nested(<<Accessors>>, Ref(1))
    \cup UNION {Nested(<<Failing(kind, toString)>>, Ref(1)) :
                   kind \in {"object", "date", "regexp"}, toString \in {"ok", "throws"}}
    \cup Nested(<<>>, VNamelessFunction)
    \cup {Subject(<<Node("array", <<Data("0", VNamelessFunction)>>, <<>>,
                         Data("stack", VUndefined), Data("message", VUndefined), "",
                         "1,2", "throws", "ok")>>, Ref(1)),
          Subject(<<Plain("array", <<Data("0", VNum(1)), Hole,
                                     Accessor("2", TRUE, FALSE, VNum(3), FALSE),
                                     Accessor("3", TRUE, FALSE, VNum(4), TRUE)>>,
                          <<>>, "1,2")>>, Ref(1)),
          Subject(<<Plain("array", <<Data("0", Ref(1)), Data("1", VNamelessFunction)>>,
                          <<>>, "1,2")>>, Ref(1)),
          Subject(<<Plain("array", <<Hole, Accessor("1", TRUE, FALSE, VNum(3), FALSE),
                                     Accessor("2", FALSE, TRUE, VUndefined, FALSE)>>,
                          <<>>, "1,2")>>, Ref(1))}

Ordinary ==
    {Subject(<<>>, v) :
        v \in {VNull, VUndefined, VStr("text"), VStr("[Circular]"), VNum(7), VNum(0),
                VNaN, VInfinity, VBool(TRUE), VBigInt(9), VSymbol("s"),
                VFunction("f"), VFunction("")}}
    \cup {Subject(<<Node("date", <<>>, <<>>, Data("stack", VUndefined),
                         Data("message", VUndefined), iso, TextOf("date"), "ok", "ok")>>,
                  Ref(1)) : iso \in {"", "1970-01-01T00:00:00.000Z"}}
    \cup {Subject(<<Plain("regexp", <<>>, <<>>, "/re/")>>, Ref(1)), Diamond}
    \cup Shared

Subjects ==
    {Sized(kind, n, 0) : kind \in Collections, n \in Sizes}
    \cup {Sized("object", n, s) : n \in Sizes, s \in 1..MaxSyms}
    \cup {SelfAt(kind, n, p) : kind \in Collections,
                               n \in {1, MAX_ITEMS + 1}, p \in {1, MAX_ITEMS + 1}}
    \cup {Chain(kind, c[1], c[2]) :
            kind \in Collections \cup {"mixed"},
            c \in {d \in (1..MaxChain) \X (0..MaxChain) : d[2] <= d[1]}}
    \cup Errors \cup Hostile \cup Ordinary

InspectorInit ==
    /\ Mounted
    /\ arg \in {x \in Subjects : x.root.t # "ref" \/ x.root.n \in 1..Len(x.heap)}
    /\ ret = Pending

\* safeInspect(value)
Inspect ==
    /\ ret = Pending
    /\ ret' = <<safeInspect(arg.heap, arg.root)>>
    /\ UNCHANGED <<arg, session, kept>>

InspectorNext == Inspect

InspectorSpec == InspectorInit /\ [][InspectorNext]_vars

Inspected == ret # Pending

Result == ret[1]
Contains(out, piece) == \E i \in 1..Len(out) : out[i] = piece

\* the objects an object holds in its elements, data properties, keys and members
Held(h, id) ==
    {e.val.n : e \in {x \in {h[id].items[i] : i \in 1..Len(h[id].items)}
                             \cup {h[id].syms[i] : i \in 1..Len(h[id].syms)} :
                          x.shape = "data" /\ x.val.t = "ref"}}
    \cup {e.key.n : e \in {x \in {h[id].items[i] : i \in 1..Len(h[id].items)} :
                              x.key.t = "ref"}}

\* the objects reached from those of S in at most n steps
RECURSIVE ReachFrom(_, _, _)
ReachFrom(h, S, n) ==
    IF n = 0 THEN S ELSE ReachFrom(h, S \cup UNION {Held(h, id) : id \in S}, n - 1)

\* the value contains an object that holds itself, directly or through others
HasSelfReference(x) ==
    /\ x.root.t = "ref"
    /\ \E id \in ReachFrom(x.heap, {x.root.n}, Len(x.heap)) :
          id \in ReachFrom(x.heap, Held(x.heap, id), Len(x.heap))

\* the values a descent into the object inspects: those of its first
\* MAX_ITEMS elements, entries, members or properties (keys, then symbols)
Visible(h, id) ==
    LET all == h[id].items \o h[id].syms
        first == {all[i] : i \in 1..Min(Len(all), MAX_ITEMS)}
    IN IF h[id].kind \notin {"array", "map", "set", "object"} THEN {}
       ELSE {e.val : e \in {x \in first : x.shape = "data"}}
            \cup {e.key : e \in {x \in first : h[id].kind = "map"}}

\* some path of at most `depth` descents from v leads back to an object on it
RECURSIVE Closes(_, _, _, _)
Closes(h, v, depth, path) ==
    /\ v.t = "ref"
    /\ \/ v.n \in path
       \/ /\ depth > 0
          /\ \E c \in Visible(h, v.n) : Closes(h, c, depth - 1, path \cup {v.n})

RootIs(kinds) ==
    /\ Inspected
    /\ arg.root.t = "ref"
    /\ arg.heap[arg.root.n].kind \in kinds
    /\ arg.root.n \notin Result.eff.caught

\* String(value) of the root, or [Unserializable]
RootFallback ==
    IF arg.root.t # "ref" THEN Coerce(arg.heap, Returned(arg.root, NoEffects)).out
    ELSE IF arg.heap[arg.root.n].toString = "throws" THEN <<"[Unserializable]">>
    ELSE <<arg.heap[arg.root.n].text>>

\* C16: safeInspect returns a string for every value and never throws; when
\* the inspection of the value fails the string is String(value), or
\* [Unserializable] when String(value) fails too.
C16_Total ==
    Inspected =>
        /\ ~Result.threw
        /\ Result.str
        /\ (arg.root.t = "ref" /\ arg.root.n \in Result.eff.caught) \/ Root \in Result.eff.caught
              => Result.out = RootFallback

\* '... ' + count + what
IsRemainder(part) == part.str /\ Len(part.out) = 3 /\ part.out[1] = "... "
Remainders(parts) == {i \in 1..Len(parts) : IsRemainder(parts[i])}

\* C17: an array of length n is rendered with min(n, MAX_ITEMS) items, and
\* when n > MAX_ITEMS with one more entry, the last, that counts the
\* n - MAX_ITEMS items left out; no such entry when n <= MAX_ITEMS.
C17_ArrayItems ==
    RootIs({"array"}) =>
        LET n == Len(arg.heap[arg.root.n].items)
            result == arrayResult(arg.heap, arg.root.n, MAX_DEPTH, {arg.root.n}, 0).parts
        IN /\ Result.out = <<"[">> \o join(arg.heap, result, ", ").out \o <<"]">>
           /\ Len(result) - Cardinality(Remainders(result)) = Min(n, MAX_ITEMS)
           /\ IF n > MAX_ITEMS
              THEN /\ Remainders(result) = {Len(result)}
                   /\ result[Len(result)].out
                        = <<"... ", ToString(n - MAX_ITEMS), " more items">>
              ELSE Remainders(result) = {}

\* an array of more than MAX_ITEMS + 1 elements was inspected
C17_Witness ==
    /\ RootIs({"array"})
    /\ Len(arg.heap[arg.root.n].items) > MAX_ITEMS + 1

\* the array filled by the branch of the root
RootParts ==
    LET h == arg.heap
        id == arg.root.n
    IN CASE h[id].kind = "map" -> mapResult(h, id, MAX_DEPTH, {id}, 0).parts
         [] h[id].kind = "set" -> setResult(h, id, MAX_DEPTH, {id}, 0).parts
         [] h[id].kind = "array" -> arrayResult(h, id, MAX_DEPTH, {id}, 0).parts
         [] OTHER -> objectResult(h, id, MAX_DEPTH, {id}, 0).parts

\* C18: a plain object, Map or Set is rendered with at most MAX_ITEMS
\* entries; when it has more, with exactly one remainder whose count is the
\* total less the entries rendered, whatever the numbers of string-keyed and
\* symbol-keyed properties.
C18_OneRemainder ==
    RootIs({"object", "map", "set"}) =>
        LET total == Len(arg.heap[arg.root.n].items) + Len(arg.heap[arg.root.n].syms)
            rendered == Len(RootParts) - Cardinality(Remainders(RootParts))
        IN /\ rendered <= MAX_ITEMS
           /\ IF total > MAX_ITEMS
              THEN /\ Cardinality(Remainders(RootParts)) = 1
                   /\ \A i \in Remainders(RootParts) :
                         RootParts[i].out[2] = ToString(total - rendered)
              ELSE Remainders(RootParts) = {}

\* the tag of a composite out of budget
Tag(node) == IF node.kind = "array" THEN "[Array]" ELSE "[Object]"

\* C19 as stated: the budget is MAX_DEPTH at the root and one less at each
\* descent; a composite reached with budget 0 is shown as its bare tag and
\* is not entered.
C19_DepthBudget ==
    Inspected =>
        \A t \in Result.eff.trace :
            /\ t.depth = MAX_DEPTH - t.level
            /\ t.depth = 0 => t.shown = Tag(arg.heap[t.id])

\* C19 amended: the budget is MAX_DEPTH at the root and one less at each
\* descent; a composite reached with budget 0 is not entered: it is shown
\* as [Circular] when it is in progress on the path to it, and as its bare
\* tag otherwise.
C19_DepthBudgetOrCircular ==
    Inspected =>
        \A t \in Result.eff.trace :
            /\ t.depth = MAX_DEPTH - t.level
            /\ t.depth = 0 =>
                  t.shown = IF t.id \in t.path THEN "[Circular]" ELSE Tag(arg.heap[t.id])

\* a Set in progress was met again with budget 0 and shown as [Circular]
C19_Witness ==
    /\ Inspected
    /\ \E t \in Result.eff.trace :
          /\ t.depth = 0 /\ t.id \in t.path
          /\ t.shown = "[Circular]" /\ arg.heap[t.id].kind = "set"

\* the label of a string-keyed or symbol-keyed property
Label(e, symbolic) ==
    IF symbolic THEN <<"[", "Symbol(", e.name, ")", "]">>
    ELSE IF e.ident THEN <<e.name>> ELSE quoteString(e.name)

\* what the descriptor of a property shows
Described(h, e, depth, seen, level) ==
    IF e.shape = "data" THEN Coerce(h, inspectValue(h, e.val, depth, seen, level)).out
    ELSE <<IF e.get /\ e.set THEN "[Getter/Setter]"
           ELSE IF e.get THEN "[Getter]" ELSE "[Setter]">>

OnCycle(h, id) == id \in ReachFrom(h, Held(h, id), Len(h))

\* C34: when a call of inspectValue ends, by a return or by its fallback, the
\* in-progress set is the set it found; only an object that is part of a cycle
\* is ever shown as [Circular], and an object held twice without a cycle is
\* rendered in full both times.
C34_DescentPathOnly ==
    Inspected =>
        /\ \A t \in Result.eff.trace :
              /\ t.left = t.path
              /\ t.shown = "[Circular]" => OnCycle(arg.heap, t.id)
        /\ arg = Diamond =>
              Result.out = <<"[", "{", "a", ": ", "1", "}", ", ",
                             "{", "a", ": ", "1", "}", "]">>
        /\ arg \in Shared => ~Contains(Result.out, "[Circular]")

\* a Map whose only entry has the same Set as key and as value was inspected
\* and the Set is rendered twice
C34_Witness ==
    /\ Inspected
    /\ arg \in Shared
    /\ arg.heap[arg.root.n].kind = "map"
    /\ Cardinality({i \in DOMAIN Result.out : Result.out[i] = "Set("}) = 2

\* C35: the inspection of an array invokes no accessor defined on one of the
\* indices of the array.
C35_ArrayGettersNotInvoked ==
    Inspected => \A c \in Result.eff.calls : arg.heap[c[1]].kind # "array"

----------------------------------------------------------------------------
(* The reports of a realm: the console wrappers, the catch block of the RUN *)
(* handler and the 'error' and 'unhandledrejection' listeners, each with    *)
(* what the host makes of the message it posts                              *)

\* the pieces of a text as one string
RECURSIVE Flat(_)
Flat(out) ==
    IF out = <<>> THEN ""
    ELSE IF Len(out) = 1 THEN out[1]
    ELSE LET mid == Len(out) \div 2
         IN Flat(SubSeq(out, 1, mid)) \o Flat(SubSeq(out, mid + 1, Len(out)))

\* String(value): unlike a concatenation it accepts a symbol
String(h, v) ==
    IF v.t = "symbol" THEN [out |-> inspectPrimitive(v), threw |-> FALSE]
    ELSE Coerce(h, Returned(v, NoEffects))

\* value instanceof Error
isError(h, v) == v.t = "ref" /\ h[v.n].kind = "error"

\* value && value[name]: a primitive has no such property
Property(h, v, name) ==
    IF v.t # "ref" THEN [val |-> IF Truthy(v) THEN VUndefined ELSE v, threw |-> FALSE, calls |-> {}]
    ELSE Read(v.n, IF name = "stack" THEN h[v.n].stack ELSE h[v.n].message)

\* a || b || c on values read in turn; a read that throws ends it
FirstTruthy(a, b, c) ==
    IF a.threw THEN [val |-> VUndefined, threw |-> TRUE]
    ELSE IF Truthy(a.val) THEN [val |-> a.val, threw |-> FALSE]
    ELSE IF b.threw THEN [val |-> VUndefined, threw |-> TRUE]
    ELSE IF Truthy(b.val) THEN [val |-> b.val, threw |-> FALSE]
    ELSE [val |-> c, threw |-> FALSE]

\* The branches of serializeArg(arg), inspected being the outcome of
\* inspectValue(arg, MAX_DEPTH, new WeakSet()): a number returns it as it is,
\* the last branch, safeInspect(arg), returns it inside its try/catch.
serialized(h, value, inspected) ==
    IF value.t = "string" THEN Text(<<value.s>>, NoEffects)
    ELSE IF value.t = "null" THEN Text(<<"null">>, NoEffects)
    ELSE IF value.t = "undefined" THEN Text(<<"undefined">>, NoEffects)
    ELSE IF value.t = "number" THEN inspected
    ELSE IF value.t = "boolean" THEN Text(<<value.s>>, NoEffects)
    ELSE IF value.t = "bigint" THEN Text(<<ToString(value.n), "n">>, NoEffects)
    ELSE IF isError(h, value)
    THEN LET text == FirstTruthy(Property(h, value, "stack"), Property(h, value, "message"),
                                 VStr("Error"))
         IN IF text.threw THEN Thrown(NoEffects) ELSE Returned(text.val, NoEffects)
    ELSE guarded(h, value, inspected)

\* serializeArg(arg)
serializeArg(h, value) ==
    serialized(h, value, inspectValue(h, value, MAX_DEPTH, {}, 0))

\* The structured clone postMessage makes of a value a handler computed: a
\* symbol and a function cannot be cloned (DataCloneError); the clone of a
\* number carries its decimal text, the clone of an object its JSON text.
Cloned(h, r) ==
    IF r.str THEN [val |-> Str(Flat(r.out)), threw |-> FALSE]
    ELSE CASE r.raw.t \in {"symbol", "function"} -> [val |-> Undefined, threw |-> TRUE]
           [] r.raw.t = "ref" ->
                [val |-> JS("object", IF h[r.raw.n].items = <<>> THEN "{}" ELSE "{...}", <<>>),
                 threw |-> FALSE]
           [] r.raw.t = "null" -> [val |-> JSNull, threw |-> FALSE]
           [] r.raw.t = "undefined" -> [val |-> Undefined, threw |-> FALSE]
           [] OTHER -> [val |-> JS(r.raw.t, Flat(String(h, r.raw).out), <<>>), threw |-> FALSE]

\* What a handler of the realm has done: posted are the messages that
\* reached the host's queue, threw tells that an exception left the handler,
\* steps are the message posted ("post") and the call of the original
\* console method ("forward") in their order.
Emission(posted, threw, steps) == [posted |-> posted, threw |-> threw, steps |-> steps]

\* the object literals of the realm's messages, cloned
ConsoleData(level, items, runId) ==
    Raw("object", Str("CONSOLE"), Str(level), Arr(items), Undefined, Undefined,
        Str(RunIdText(runId)), Undefined)
ErrorData(type, message, stack, runId) ==
    Raw("object", Str(type), Undefined, Undefined, message, stack,
        Str(RunIdText(runId)), Undefined)

\* post(data) of an error message whose message and stack were cloned with the
\* given outcomes: a clone that fails is swallowed by the try/catch of post
postError(type, message, stack, runId) ==
    IF message.threw \/ stack.threw THEN Emission(<<>>, FALSE, <<>>)
    ELSE Emission(<<ErrorData(type, message.val, stack.val, runId)>>, FALSE, <<"post">>)

\* the body of a console wrapper from the outcomes of args.map(serializeArg)
wrapped(h, level, texts, runId) ==
    LET clones == [i \in DOMAIN texts |-> Cloned(h, texts[i])]
    IN IF \E i \in DOMAIN texts : texts[i].threw THEN Emission(<<>>, TRUE, <<>>)
       ELSE IF \E i \in DOMAIN texts : clones[i].threw
       THEN Emission(<<>>, FALSE, <<"forward">>)
       ELSE Emission(<<ConsoleData(level, [i \in DOMAIN texts |-> clones[i].val], runId)>>,
                     FALSE, <<"post", "forward">>)

\* console[level] = function () {...}: serialize, post, then the original
\* method inside try/catch
consoleWrapper(h, level, args, runId, originalThrows) ==
    wrapped(h, level, [i \in DOMAIN args |-> serializeArg(h, args[i])], runId)

\* the window 'error' listener, for an event with the given message and error
onError(h, eventMessage, err, runId) ==
    LET message == FirstTruthy([val |-> eventMessage, threw |-> FALSE],
                               Property(h, err, "message"), VStr("Uncaught error"))
        text == String(h, message.val)
        stack == Property(h, err, "stack")
        trace == String(h, stack.val)
        sent == IF Truthy(stack.val) THEN Str(Flat(trace.out)) ELSE Undefined
    IN IF message.threw \/ text.threw \/ stack.threw \/ (Truthy(stack.val) /\ trace.threw)
       THEN Emission(<<>>, TRUE, <<>>)
       ELSE Emission(<<ErrorData("RUNTIME_ERROR", Str(Flat(text.out)), sent, runId)>>,
                     FALSE, <<"post">>)

\* An exception that leaves a listener is reported to the window: an 'error'
\* event whose error is the exception, here an Error the engine or a getter made.
Uncaught == ErrorNode(Data("stack", VStr("Error: thrown\n    at get")),
                      Data("message", VStr("thrown")), "ok")
Reported(runId) ==
    [onError(<<Uncaught>>, VStr("Uncaught Error: thrown"), Ref(1), runId)
        EXCEPT !.threw = TRUE]

\* the catch block of the RUN handler, for the value e the code threw
catchBlock(h, e, runId) ==
    LET text == String(h, e)
        \* new Error(String(e)): the message is the text, the stack the engine's
        made == Flat(text.out)
        message == IF isError(h, e) THEN Property(h, e, "message")
                   ELSE [val |-> VStr(made), threw |-> FALSE]
        shown == FirstTruthy(message, [val |-> VUndefined, threw |-> FALSE],
                             VStr("Runtime error"))
        stack == IF isError(h, e) THEN Property(h, e, "stack")
                 ELSE [val |-> VStr("Error: " \o made \o "\n    at RUN"), threw |-> FALSE]
    IN IF (~isError(h, e) /\ text.threw) \/ shown.threw \/ stack.threw
       THEN Reported(runId)
       ELSE postError("RUNTIME_ERROR", Cloned(h, Returned(shown.val, NoEffects)),
                      Cloned(h, Returned(stack.val, NoEffects)), runId)

\* mutant: the message of every reason that is not an Error is String(reason)
onRejection_coerces(h, reason, runId) ==
    LET text == IF isError(h, reason)
                THEN FirstTruthy(Property(h, reason, "message"),
                                 [val |-> VUndefined, threw |-> FALSE],
                                 VStr("Unhandled promise rejection"))
                ELSE [val |-> VStr(Flat(String(h, reason).out)), threw |-> String(h, reason).threw]
        message == Returned(text.val, NoEffects)
        stack == IF isError(h, reason) THEN Property(h, reason, "stack")
                 ELSE [val |-> VUndefined, threw |-> FALSE]
        trace == String(h, stack.val)
        sent == IF Truthy(stack.val) THEN Str(Flat(trace.out)) ELSE Undefined
    IN IF text.threw \/ stack.threw \/ (Truthy(stack.val) /\ trace.threw)
       THEN Reported(runId)
       ELSE postError("UNHANDLED_REJECTION", Cloned(h, message),
                      [val |-> sent, threw |-> FALSE], runId)

\* the window 'unhandledrejection' listener, for a rejection with the given reason
onRejection(h, reason, runId) ==
    LET text == IF isError(h, reason)
                THEN FirstTruthy(Property(h, reason, "message"),
                                 [val |-> VUndefined, threw |-> FALSE],
                                 VStr("Unhandled promise rejection"))
                ELSE [val |-> VUndefined, threw |-> FALSE]
        message == IF isError(h, reason) THEN Returned(text.val, NoEffects)
                   ELSE IF reason.t = "string" THEN Text(<<reason.s>>, NoEffects)
                   ELSE safeInspect(h, reason)
        stack == IF isError(h, reason) THEN Property(h, reason, "stack")
                 ELSE [val |-> VUndefined, threw |-> FALSE]
        trace == String(h, stack.val)
        sent == IF Truthy(stack.val) THEN Str(Flat(trace.out)) ELSE Undefined
    IN IF text.threw \/ stack.threw \/ (Truthy(stack.val) /\ trace.threw)
       THEN Reported(runId)
       ELSE postError("UNHANDLED_REJECTION", Cloned(h, message),
                      [val |-> sent, threw |-> FALSE], runId)

\* the callback of args.map in formatArgs: the text of one element
formatArg(a) ==
    CASE a.t = "null" -> "null"
      [] a.t = "undefined" -> "undefined"
      [] OTHER -> a.s

\* what onMessage appends to the log for event.data of the mounted realm
appended(data, active) ==
    LET m == parseRunnerMessage(data)
        texts == IF m.type = Str("CONSOLE")
                 THEN [m EXCEPT !.args = Arr([i \in DOMAIN m.args.items |->
                                                 Str(formatArg(m.args.items[i]))])]
                 ELSE m
        msg == Unwire(texts)
    IN IF m = NoMessage \/ msg.type = "READY" \/ StaleRun(msg, active) THEN <<>>
       ELSE IF msg.type = "CONSOLE" THEN <<ConsoleLine(msg)>>
       ELSE <<ErrorLine(msg)>>

\* the lines the host appends for a sequence of event.data, in order
RECURSIVE received(_, _)
received(posted, active) ==
    IF posted = <<>> THEN <<>>
    ELSE appended(Head(posted), active) \o received(Tail(posted), active)

----------------------------------------------------------------------------
(* One report at a time: a handler of the realm runs on the values of a    *)
(* report, then the host handles what it posted                            *)

\* window.__RUN_ID__ when the handler runs: the id the RUN message carried
\* (the active run id), or what the running code has assigned since
ReportRunIds == {EmptyRunId, makeRunId(1), makeRunId(2)}

\* the objects of the running code that the reports are about
ReportHeap ==
    <<Plain("object", <<Data("b", VNum(2))>>, <<>>, "[object Object]"),
      Plain("object", <<>>, <<>>, "[object Object]"),
      ErrorNode(Data("stack", VStr("Error: boom\n    at run")),
                Data("message", VStr("boom")), "ok"),
      ErrorNode(Accessor("stack", TRUE, FALSE, VStr("stk"), TRUE),
                Data("message", VStr("boom")), "ok"),
      ErrorNode(Data("stack", VNum(42)), Data("message", VStr("boom")), "ok"),
      ErrorNode(Data("stack", VSymbol("s")), Data("message", VStr("boom")), "ok"),
      ErrorNode(Data("stack", VStr("")), Data("message", VStr("boom")), "ok"),
      ErrorNode(Data("stack", VStr("")), Data("message", VStr("")), "ok"),
      Node("object", <<>>, <<>>, Data("stack", VUndefined), Data("message", VUndefined),
           "", "", "throws", "ok"),
      ErrorNode(Data("stack", VStr("stk")), Data("message", VNum(42)), "ok"),
      ErrorNode(Data("stack", Ref(2)), Data("message", VStr("boom")), "ok"),
      Plain("array", <<Data("0", VNum(1)), Data("1", VStr("a"))>>, <<>>, "1,a")>>

ReportValues ==
    {VNum(1), VStr("a"), VStr(""), VNull, VUndefined, VBool(TRUE), VBigInt(9),
     VSymbol("s"), VFunction("f"), VNaN}
    \cup {Ref(id) : id \in DOMAIN ReportHeap}

\* the values of the console calls that pass more than one argument
JoinedValues == {VNum(1), VStr("a"), Ref(1), Ref(3)}

\* a console call, a throw of the code, an uncaught error of a callback or an
\* unhandled rejection, with the values it is about
Report(kind, level, values, RUN_ID, originalThrows) ==
    [kind |-> kind, level |-> level, heap |-> ReportHeap, values |-> values,
     RUN_ID |-> RUN_ID, originalThrows |-> originalThrows]

Reports ==
    {Report("console", level, args, id, originalThrows) :
        level \in ConsoleLevel,
        args \in {<<>>} \cup {<<v>> : v \in ReportValues}
                 \cup ArraysUpTo(MaxArgs, JoinedValues)
                 \cup {<<VNum(1), VStr("a"), Ref(1)>>},
        id \in ReportRunIds, originalThrows \in BOOLEAN}
    \cup {Report(kind, "", <<v>>, id, FALSE) :
            kind \in {"throw", "error", "rejection"}, v \in ReportValues,
            id \in ReportRunIds}

\* what the realm does for a report
emitted(x) ==
    CASE x.kind = "console" ->
            consoleWrapper(x.heap, x.level, x.values, x.RUN_ID, x.originalThrows)
      [] x.kind = "throw" -> catchBlock(x.heap, x.values[1], x.RUN_ID)
      [] x.kind = "error" ->
            onError(x.heap, VStr("Uncaught"), x.values[1], x.RUN_ID)
      [] x.kind = "rejection" -> onRejection(x.heap, x.values[1], x.RUN_ID)

ReportInit ==
    /\ Mounted
    /\ arg \in Reports
    /\ ret = Pending

\* the handler of the realm runs
Emit ==
    /\ ret = Pending
    /\ ret' = <<emitted(arg)>>
    /\ UNCHANGED <<arg, session, kept>>

\* the host handles the messages the handler posted
Receive ==
    /\ Len(ret) = 1
    /\ ret' = <<ret[1], received(ret[1].posted, activeRunId)>>
    /\ UNCHANGED <<arg, session, kept>>

ReportNext == Emit \/ Receive

ReportSpec == ReportInit /\ [][ReportNext]_vars

Emitted == Len(ret) >= 1
Received == Len(ret) = 2
\* the report is made in the active run with window.__RUN_ID__ as the RUN message set it
InActiveRun == arg.RUN_ID = activeRunId

\* the rendering of one argument of a console call: a string unquoted, a
\* number as its decimal text, any other value through the inspector
Rendering(h, a) ==
    IF a.t = "string" THEN a.s
    ELSE IF a.t = "number" THEN Flat(inspectPrimitive(a))
    ELSE Flat(Coerce(h, safeInspect(h, a)).out)

\* C21: a console call in the active run gives exactly one line of the log,
\* of kind console, whose level is the method called and whose text is the
\* renderings of the arguments joined by single spaces.
C21_ConsoleLine ==
    (Received /\ arg.kind = "console" /\ InActiveRun) =>
        ret[2] = <<[kind |-> "console", level |-> arg.level,
                    text |-> JoinWith([i \in DOMAIN arg.values |->
                                          Rendering(arg.heap, arg.values[i])], " "),
                    runId |-> arg.RUN_ID]>>

\* the message each report posted, as the host's parser returns it
Parcel == parseRunnerMessage(ret[1].posted[1])
\* the host keeps it: it is valid and passes the activity filter
Kept == /\ Parcel # NoMessage
        /\ ~StaleRun(Unwire(Parcel), activeRunId)

\* C22: a value thrown by the run's code is caught inside the RUN handler,
\* which lets no exception out and posts exactly one RUNTIME_ERROR carrying
\* the run's id, a message and a stack; the log gains exactly one error line.
C22_ThrowReported ==
    (Received /\ arg.kind = "throw") =>
        /\ ~ret[1].threw
        /\ Len(ret[1].posted) = 1
        /\ ret[1].posted[1].type = Str("RUNTIME_ERROR")
        /\ ret[1].posted[1].runId = Str(RunIdText(activeRunId))
        /\ ret[1].posted[1].message.t = "string"
        /\ ret[1].posted[1].stack.t = "string"
        /\ Len(ret[2]) = 1
        /\ ret[2][1].kind = "error"

\* C23: an UNHANDLED_REJECTION message the host keeps appends exactly one
\* line of kind error whose text is `Unhandled rejection: `, the message and,
\* when the stack is a non-empty string, a newline and the stack; a
\* RUNTIME_ERROR message the same without the prefix.
C23_ErrorLineLayout ==
    (Received /\ Len(ret[1].posted) = 1 /\ Kept /\ Parcel.type \in ErrorTags) =>
        /\ Len(ret[2]) = 1
        /\ ret[2][1].kind = "error"
        /\ ret[2][1].text =
              (IF Parcel.type = Str("UNHANDLED_REJECTION")
               THEN <<"Unhandled rejection: ">> ELSE <<>>)
              \o <<Parcel.message.s>>
              \o (IF Parcel.stack.t = "string" /\ Parcel.stack.s # ""
                  THEN <<"\n", Parcel.stack.s>> ELSE <<>>)

\* an UNHANDLED_REJECTION of the active run with a stack has been kept
C23_Witness ==
    /\ Received /\ Len(ret[1].posted) = 1 /\ Kept
    /\ Parcel.type = Str("UNHANDLED_REJECTION")
    /\ Parcel.runId = Str(RunIdText(activeRunId))
    /\ Parcel.stack.t = "string" /\ Parcel.stack.s # ""

\* the reason of the rejection is not an Error
PlainReason == arg.kind = "rejection" /\ ~isError(arg.heap, arg.values[1])

\* C24 as stated: the message of the UNHANDLED_REJECTION posted for a reason
\* that is not an Error is the inspector's rendering of the reason.
C24_InspectorMessage ==
    (Emitted /\ PlainReason) =>
        /\ Len(ret[1].posted) = 1
        /\ ret[1].posted[1].type = Str("UNHANDLED_REJECTION")
        /\ ret[1].posted[1].message =
              Str(Flat(safeInspect(arg.heap, arg.values[1]).out))

\* C24 amended: for a reason that is neither an Error nor a string the
\* message is the inspector's rendering of the reason; for a string it is
\* the string itself, without the quotes the inspector would put around it.
C24_InspectorUnlessString ==
    (Emitted /\ PlainReason) =>
        /\ Len(ret[1].posted) = 1
        /\ ret[1].posted[1].type = Str("UNHANDLED_REJECTION")
        /\ ret[1].posted[1].message =
              IF arg.values[1].t = "string" THEN Str(arg.values[1].s)
              ELSE Str(Flat(safeInspect(arg.heap, arg.values[1]).out))

\* the rejection with the object {b: 2} has been reported
C24_Witness ==
    /\ Emitted /\ PlainReason
    /\ arg.values[1] = Ref(1)
    /\ ret[1].posted[1].message = Str("{b: 2}")

----------------------------------------------------------------------------
(* The workspace hook and the theme on a storage whose operations can fail *)

\* the contents of the storage a visitor can arrive with
StoredStates ==
    {NoItem, stringify(defaultWorkspace), stringify(WorkspaceState("root", "edited")),
     stringify(WorkspaceState("gone", "edited")), stringify([nodes |-> [root |-> "folder"]]),
     Item("{")}
StoredThemes == {NoItem, Item("dark"), Item("light"), Item("system")}
Storages ==
    {[k \in StorageKeys |->
         CASE k = DRAFT_KEY -> d [] k = SAVED_KEY -> s
           [] k = THEME_STORAGE_KEY -> t [] OTHER -> l] :
        d \in StoredStates, s \in StoredStates,
        t \in {NoItem, Item("light")}, l \in StoredThemes}

\* what the editor holds after a change of the file
Contents == {"readme", "edited", "more"}

\* localStorage.setItem / removeItem on a storage that works
setItem(store, key, value) == [store EXCEPT ![key] = value]
removeItem(store, key) == [store EXCEPT ![key] = NoItem]

\* the draft autosave effect of useWorkspace, run after a render with a new state
autosave(store, state, fails) ==
    IF fails THEN store ELSE setItem(store, DRAFT_KEY, stringify(state))

\* useState(() => safeParseState(getItem(DRAFT_KEY)) ?? safeParseState(getItem(SAVED_KEY)) ?? defaultWorkspace)
initialState(store) ==
    Coalesce(safeParseState(store[DRAFT_KEY]),
             Coalesce(safeParseState(store[SAVED_KEY]), <<defaultWorkspace>>))[1]

\* useRef(safeParseState(getItem(SAVED_KEY)) ?? defaultWorkspace)
initialSaved(store) ==
    Coalesce(safeParseState(store[SAVED_KEY]), <<defaultWorkspace>>)[1]

StorageInit ==
    /\ FirstRender
    /\ arg = Pending
    /\ ret = Pending
    /\ app = Closed
    /\ localStorage \in Storages
    /\ workspace = Unopened
    /\ tabs = Unopened
    /\ walk = Unopened

\* the first render of useWorkspace and its autosave effect; reads is FALSE
\* when getItem throws, writes is FALSE when setItem throws
useWorkspace(reads, writes) ==
    /\ ~app.mounted /\ ~app.raised
    /\ LET state == initialState(localStorage)
           saved == initialSaved(localStorage)
           ideal == InMemory(state, saved, app.userTheme)
           \* with nothing readable the workspace would be the default one
           fallback == InMemory(defaultWorkspace, defaultWorkspace, app.userTheme)
       IN IF ~reads
          THEN /\ app' = [app EXCEPT !.raised = TRUE, !.ideal = fallback]
               /\ UNCHANGED localStorage
          ELSE /\ app' = [app EXCEPT !.mounted = TRUE, !.state = state,
                                     !.savedRef = saved, !.ideal = ideal]
               /\ localStorage' = autosave(localStorage, state, ~writes)
    /\ UNCHANGED <<session, pure, page>>

\* updateFileContent(fileId, content), the render it causes (useRef's argument
\* is evaluated again) and the autosave effect
updateFileContent(content, reads, writes) ==
    /\ app.mounted /\ ~app.raised
    /\ content # app.state.nodes.file
    /\ LET state == [app.state EXCEPT !.nodes.file = content]
           ideal == InMemory(state, app.savedRef, app.userTheme)
       IN IF ~reads
          THEN /\ app' = [app EXCEPT !.state = state, !.raised = TRUE, !.ideal = ideal]
               /\ UNCHANGED localStorage
          ELSE /\ app' = [app EXCEPT !.state = state, !.ideal = ideal]
               /\ localStorage' = autosave(localStorage, state, ~writes)
    /\ UNCHANGED <<session, pure, page>>

\* saveFile(fileId) for the file of the workspace
saveFile(writes) ==
    /\ app.mounted /\ ~app.raised
    /\ app.state.nodes.file # app.savedRef.nodes.file
    /\ app' = [app EXCEPT !.savedRef = IF writes THEN app.state ELSE @,
                          !.ideal = InMemory(app.state, app.state, app.userTheme)]
    /\ localStorage' = IF writes THEN setItem(localStorage, SAVED_KEY, stringify(app.state))
                       ELSE localStorage
    /\ UNCHANGED <<session, pure, page>>

\* saveAll()
saveAll(writes) ==
    /\ app.mounted /\ ~app.raised
    /\ app' = [app EXCEPT !.savedRef = IF writes THEN app.state ELSE @,
                          !.ideal = InMemory(app.state, app.state, app.userTheme)]
    /\ localStorage' = IF writes THEN setItem(localStorage, SAVED_KEY, stringify(app.state))
                       ELSE localStorage
    /\ UNCHANGED <<session, pure, page>>

\* resetWorkspace(), and when the state has changed the render and the
\* autosave effect; written counts the setItem calls of the handler that succeed
resetWorkspace(reads, written) ==
    /\ app.mounted /\ ~app.raised
    /\ LET ideal == InMemory(defaultWorkspace, defaultWorkspace, app.userTheme)
           draft == IF written >= 1
                    THEN setItem(localStorage, DRAFT_KEY, stringify(defaultWorkspace))
                    ELSE localStorage
           both == IF written = 2
                   THEN setItem(draft, SAVED_KEY, stringify(defaultWorkspace))
                   ELSE draft
           renders == app.state # defaultWorkspace
       IN /\ app' = [app EXCEPT !.state = defaultWorkspace, !.savedRef = defaultWorkspace,
                                !.raised = renders /\ ~reads, !.ideal = ideal]
          /\ localStorage' = IF renders /\ reads
                             THEN autosave(both, defaultWorkspace, written < 2)
                             ELSE both
    /\ UNCHANGED <<session, pure, page>>

\* the effect of JSCompilerPane that persists userTheme; done counts the
\* storage calls of the effect that succeed
persistTheme(store, userTheme, done) ==
    IF userTheme = <<>>
    THEN LET first == IF done >= 1 THEN removeItem(store, THEME_STORAGE_KEY) ELSE store
         IN IF done = 2 THEN removeItem(first, LEGACY_THEME_MODE_STORAGE_KEY) ELSE first
    ELSE LET first == IF done >= 1 THEN setItem(store, THEME_STORAGE_KEY, Item(userTheme[1]))
                      ELSE store
         IN IF done = 2 THEN removeItem(first, LEGACY_THEME_MODE_STORAGE_KEY) ELSE first

\* the initialiser of userTheme at the first render of JSCompilerPane and
\* the effect that persists it
loadTheme(reads, done) ==
    /\ ~app.themed /\ ~app.raised
    /\ LET stored == Coalesce(parseUserTheme(localStorage[THEME_STORAGE_KEY]),
                              parseUserTheme(localStorage[LEGACY_THEME_MODE_STORAGE_KEY]))
           userTheme == IF reads THEN stored ELSE <<>>
       IN /\ app' = [app EXCEPT !.themed = TRUE, !.userTheme = userTheme,
                                !.ideal = InMemory(app.state, app.savedRef, userTheme)]
          /\ localStorage' = persistTheme(localStorage, userTheme, done)
    /\ UNCHANGED <<session, pure, page>>

\* the theme button, with the system theme at the time, and the effect
toggleTheme(systemTheme, done) ==
    /\ app.themed /\ ~app.raised
    /\ LET current == Coalesce(app.userTheme, <<systemTheme>>)[1]
           userTheme == <<IF current = "dark" THEN "light" ELSE "dark">>
       IN /\ app' = [app EXCEPT !.userTheme = userTheme,
                                !.ideal = InMemory(app.state, app.savedRef, userTheme)]
          /\ localStorage' = persistTheme(localStorage, userTheme, done)
    /\ UNCHANGED <<session, pure, page>>

StorageNext ==
    \/ \E reads \in BOOLEAN, writes \in BOOLEAN : useWorkspace(reads, writes)
    \/ \E content \in Contents, reads \in BOOLEAN, writes \in BOOLEAN :
          updateFileContent(content, reads, writes)
    \/ \E writes \in BOOLEAN : saveFile(writes)
    \/ \E writes \in BOOLEAN : saveAll(writes)
    \/ \E reads \in BOOLEAN, written \in 0..2 : resetWorkspace(reads, written)
    \/ \E reads \in BOOLEAN, done \in 0..2 : loadTheme(reads, done)
    \/ \E systemTheme \in {"dark", "light"}, done \in 0..2 : toggleTheme(systemTheme, done)

StorageSpec == StorageInit /\ [][StorageNext]_vars

\* C28: whatever storage operation fails, no exception leaves a render or a
\* handler of the workspace or of the theme, and the state, the saved
\* reference and the theme in memory are the ones the operation would have
\* left with a storage that works.
C28_FailuresSwallowed ==
    /\ ~app.raised
    /\ InMemory(app.state, app.savedRef, app.userTheme) = app.ideal

----------------------------------------------------------------------------
(* The tree of the workspace: the node objects, the states that hold them  *)
(* and the calls of the hook that change the tree                          *)

\* A name is the sequence of its characters.
Upper == <<"A", "B", "C", "D", "E", "F", "G", "H", "I", "J", "K", "L", "M",
           "N", "O", "P", "Q", "R", "S", "T", "U", "V", "W", "X", "Y", "Z">>
Lower == <<"a", "b", "c", "d", "e", "f", "g", "h", "i", "j", "k", "l", "m",
           "n", "o", "p", "q", "r", "s", "t", "u", "v", "w", "x", "y", "z">>

\* String.prototype.toLowerCase
toLowerCase(name) ==
    [i \in DOMAIN name |->
        IF \E k \in DOMAIN Upper : Upper[k] = name[i]
        THEN Lower[CHOOSE k \in DOMAIN Upper : Upper[k] = name[i]]
        ELSE name[i]]

\* String.prototype.trim
RECURSIVE trim(_)
trim(name) ==
    IF name = <<>> THEN name
    ELSE IF Head(name) = " " THEN trim(Tail(name))
    ELSE IF name[Len(name)] = " " THEN trim(SubSeq(name, 1, Len(name) - 1))
    ELSE name

\* String.prototype.lastIndexOf('.'), counted from 0; -1 when there is none
lastIndexOf(name) ==
    IF \E i \in DOMAIN name : name[i] = "."
    THEN (CHOOSE i \in DOMAIN name :
              name[i] = "." /\ \A j \in DOMAIN name : name[j] = "." => j <= i) - 1
    ELSE -1

\* `${base}_${i}${ext}`
Numbered(base, i, ext) == base \o <<"_", ToString(i)>> \o ext

\* A node object.  parentId is <<>> (null) or <<id>>; a file has no childrenIds.
folder(id, parentId, name, childrenIds) ==
    [type |-> "folder", id |-> id, parentId |-> parentId, name |-> name,
     childrenIds |-> childrenIds]
file(id, parentId, name) ==
    [type |-> "file", id |-> id, parentId |-> parentId, name |-> name,
     childrenIds |-> <<>>]

\* makeId('file'): an id no node has
makeId(n) == "file_" \o ToString(n)

\* the keys a nodes record can have
NodeIds ==
    {"root", "readme", "pkg", "vite", "src", "main", "app", "styles"}
    \cup {makeId(n) : n \in 1..MaxFiles}

\* the node objects of the module defaultWorkspace, in the order of its literal
defaultObjects ==
    <<folder("root", <<>>, <<>>, <<"readme", "pkg", "vite", "src">>),
      file("readme", <<"root">>, <<"R", "E", "A", "D", "M", "E", ".", "m", "d">>),
      file("pkg", <<"root">>, <<"p", "a", "c", "k", "a", "g", "e", ".", "j", "s", "o", "n">>),
      file("vite", <<"root">>,
           <<"v", "i", "t", "e", ".", "c", "o", "n", "f", "i", "g", ".", "t", "s">>),
      folder("src", <<"root">>, <<"s", "r", "c">>, <<"main", "app", "styles">>),
      file("main", <<"src">>, <<"m", "a", "i", "n", ".", "t", "s", "x">>),
      file("app", <<"src">>, <<"A", "p", "p", ".", "t", "s", "x">>),
      file("styles", <<"src">>, <<"i", "n", "d", "e", "x", ".", "c", "s", "s">>)>>

\* A workspace state: nodes gives for each key the node object it holds, by
\* its place among the objects; 0 when the record has no such key.
Tree(rootId, nodes) == [rootId |-> rootId, nodes |-> nodes]

\* the object defaultWorkspace
defaultTree ==
    Tree("root",
         [id \in NodeIds |->
             IF \E r \in DOMAIN defaultObjects : defaultObjects[r].id = id
             THEN CHOOSE r \in DOMAIN defaultObjects : defaultObjects[r].id = id
             ELSE 0])

\* what a state shows: every key with the node object it holds now
Absent == [type |-> "none"]
View(objects, state) ==
    [id \in NodeIds |-> IF state.nodes[id] = 0 THEN Absent ELSE objects[state.nodes[id]]]

\* what a call of removeNodeRecursive leaves: the objects, the record next.nodes
Removal(objects, nodes) == [objects |-> objects, nodes |-> nodes]

\* unlinkFromParent(n): the parent object found in next.nodes is the one the
\* state passed in holds; its childrenIds is assigned, then a copy is stored
unlinkFromParent(objects, nodes, n) ==
    IF n.parentId = <<>> \/ nodes[n.parentId[1]] = 0 THEN Removal(objects, nodes)
    ELSE LET at == nodes[n.parentId[1]]
             parent == objects[at]
             filtered == SelectSeq(parent.childrenIds, LAMBDA id : id # n.id)
             assigned == [objects EXCEPT ![at].childrenIds = filtered]
         IN IF parent.type # "folder" THEN Removal(objects, nodes)
            ELSE Removal(Append(assigned, assigned[at]),
                         [nodes EXCEPT ![parent.id] = Len(objects) + 1])

\* del(id), and n.childrenIds.forEach(del) over ids
RECURSIVE del(_, _, _)
RECURSIVE forEachDel(_, _, _)
del(objects, nodes, id) ==
    IF id \notin NodeIds \/ nodes[id] = 0 THEN nodes
    ELSE LET n == objects[nodes[id]]
             below == IF n.type = "folder" THEN forEachDel(objects, nodes, n.childrenIds)
                      ELSE nodes
         IN [below EXCEPT ![id] = 0]
forEachDel(objects, nodes, ids) ==
    IF ids = <<>> THEN nodes
    ELSE forEachDel(objects, del(objects, nodes, Head(ids)), Tail(ids))

\* removeNodeRecursive(state, nodeId)
removeNodeRecursive(objects, state, nodeId) ==
    IF state.nodes[nodeId] = 0 THEN [objects |-> objects, state |-> state]
    ELSE LET node == objects[state.nodes[nodeId]]
             unlinked == unlinkFromParent(objects, state.nodes, node)
         IN [objects |-> unlinked.objects,
             state |-> Tree(state.rootId, del(unlinked.objects, unlinked.nodes, nodeId))]

\* the names createFile is called with
NewNames ==
    {<<"A", "p", "p", ".", "t", "s", "x">>,
     <<" ", "a", "p", "p", ".", "t", "s", "x", " ">>,
     <<"s", "r", "c">>,
     <<" ">>}

\* the folders and the file createFile is called for
Parents == {"root", "src", "app"}

\* the updates setState is called with
Remove(nodeId) == [op |-> "remove", id |-> nodeId]
Create(parentFolderId, id, finalName) ==
    [op |-> "create", parent |-> parentFolderId, id |-> id, name |-> finalName]
Reset == [op |-> "reset"]

\* the state one update makes of prev, and the objects after it
Updated(objects, state) == [objects |-> objects, state |-> state]
update(objects, prev, u) ==
    IF u.op = "remove" THEN removeNodeRecursive(objects, prev, u.id)
    ELSE IF u.op = "reset" THEN Updated(objects, defaultTree)
    ELSE IF prev.nodes[u.parent] = 0 \/ objects[prev.nodes[u.parent]].type # "folder"
         THEN Updated(objects, prev)
    ELSE LET p == objects[prev.nodes[u.parent]]
             made == file(u.id, <<u.parent>>, u.name)
             copy == [p EXCEPT !.childrenIds = Append(p.childrenIds, u.id)]
         IN Updated(objects \o <<made, copy>>,
                    Tree(prev.rootId,
                         [prev.nodes EXCEPT ![u.id] = Len(objects) + 1,
                                            ![u.parent] = Len(objects) + 2]))

\* the updates of the queue, applied in the order of their setState calls
RECURSIVE updates(_, _, _)
updates(objects, prev, queue) ==
    IF queue = <<>> THEN Updated(objects, prev)
    ELSE LET first == update(objects, prev, Head(queue))
         IN updates(first.objects, first.state, Tail(queue))

\* the lower-case names of the children of parent that state holds
existingNames(objects, state, parent) ==
    {toLowerCase(objects[state.nodes[parent.childrenIds[i]]].name) :
        i \in {j \in DOMAIN parent.childrenIds : state.nodes[parent.childrenIds[j]] # 0}}

\* finalName of createFile
finalName(trimmed, existing) ==
    IF toLowerCase(trimmed) \notin existing THEN trimmed
    ELSE LET dot == lastIndexOf(trimmed)
             base == IF dot > 0 THEN SubSeq(trimmed, 1, dot) ELSE trimmed
             ext == IF dot > 0 THEN SubSeq(trimmed, dot + 1, Len(trimmed)) ELSE <<>>
             free(i) == toLowerCase(Numbered(base, i, ext)) \notin existing
             i == CHOOSE k \in 1..(Cardinality(existing) + 1) :
                      free(k) /\ \A j \in 1..(k - 1) : ~free(j)
         IN Numbered(base, i, ext)

Call(name, of) == [op |-> name, of |-> of]

\* the hook after its first render with an empty storage: the state and the
\* saved reference are both the object defaultWorkspace
Opened ==
    [objects |-> defaultObjects, state |-> defaultTree, savedRef |-> defaultTree,
     queue |-> <<>>, made |-> 0, calls |-> 0, last |-> Call("useWorkspace", <<>>)]

WorkspaceInit ==
    /\ FirstRender
    /\ arg = Pending
    /\ ret = Pending
    /\ app = Closed
    /\ localStorage = [k \in StorageKeys |-> NoItem]
    /\ workspace = Opened
    /\ tabs = Unopened
    /\ walk = Unopened

\* the workspace after a call of the hook's API that made w of it
called(name, of, w) ==
    [w EXCEPT !.calls = workspace.calls + 1, !.last = Call(name, of)]

\* deleteNode(nodeId), with the state of the render that made the callback
deleteNode(nodeId) ==
    /\ workspace.calls < MaxCalls
    /\ workspace' = called("deleteNode", <<nodeId>>,
                           IF nodeId = workspace.state.rootId THEN workspace
                           ELSE [workspace EXCEPT !.queue = Append(@, Remove(nodeId))])
    /\ UNCHANGED <<session, pure, app, localStorage, tabs, walk>>

\* createFile(parentFolderId, name), with the state of the render that made
\* the callback
createFile(parentFolderId, name) ==
    /\ workspace.calls < MaxCalls
    /\ workspace.made < MaxFiles
    /\ LET state == workspace.state
           objects == workspace.objects
           held == state.nodes[parentFolderId] # 0
           parent == objects[state.nodes[parentFolderId]]
           trimmed == trim(name)
           id == makeId(workspace.made + 1)
       IN workspace' =
             called("createFile", <<parentFolderId, name>>,
                    IF ~held \/ parent.type # "folder" \/ trimmed = <<>> THEN workspace
                    ELSE [workspace EXCEPT
                             !.made = @ + 1,
                             !.queue = Append(@, Create(parentFolderId, id,
                                          finalName(trimmed,
                                                    existingNames(objects, state, parent))))])
    /\ UNCHANGED <<session, pure, app, localStorage, tabs, walk>>

\* saveAll(): the saved reference becomes the state of the render
saveAll_tree ==
    /\ workspace.calls < MaxCalls
    /\ workspace' = called("saveAll", <<>>, [workspace EXCEPT !.savedRef = workspace.state])
    /\ UNCHANGED <<session, pure, app, localStorage, tabs, walk>>

\* resetWorkspace()
resetWorkspace_tree ==
    /\ workspace.calls < MaxCalls
    /\ workspace' = called("resetWorkspace", <<>>,
                           [workspace EXCEPT !.queue = Append(@, Reset),
                                             !.savedRef = defaultTree])
    /\ UNCHANGED <<session, pure, app, localStorage, tabs, walk>>

\* React applies the queued updates and renders again
render ==
    /\ workspace.queue # <<>>
    /\ LET next == updates(workspace.objects, workspace.state, workspace.queue)
       IN workspace' = [workspace EXCEPT !.objects = next.objects,
                                         !.state = next.state,
                                         !.queue = <<>>,
                                         !.last = Call("render", workspace.queue)]
    /\ UNCHANGED <<session, pure, app, localStorage, tabs, walk>>

WorkspaceNext ==
    \/ \E nodeId \in NodeIds : deleteNode(nodeId)
    \/ \E parentFolderId \in Parents, name \in NewNames : createFile(parentFolderId, name)
    \/ saveAll_tree
    \/ resetWorkspace_tree
    \/ render

WorkspaceSpec == WorkspaceInit /\ [][WorkspaceNext]_vars

\* the ids that are below id by the childrenIds of the nodes state holds
RECURSIVE Below(_, _, _, _)
Below(objects, state, ids, k) ==
    LET kids == UNION {{objects[state.nodes[id]].childrenIds[i] :
                           i \in DOMAIN objects[state.nodes[id]].childrenIds} :
                       id \in {held \in ids \cap NodeIds : state.nodes[held] # 0}}
    IN IF k = 0 \/ kids \subseteq ids THEN ids ELSE Below(objects, state, ids \cup kids, k - 1)

\* no childrenIds entry and no parentId of a node of state names a missing node
WellLinked(objects, state) ==
    \A id \in NodeIds :
        state.nodes[id] # 0 =>
            LET n == objects[state.nodes[id]]
            IN /\ n.parentId # <<>> => state.nodes[n.parentId[1]] # 0
               /\ \A i \in DOMAIN n.childrenIds : state.nodes[n.childrenIds[i]] # 0

\* the render that applies the one update u
Applies(u) == workspace'.last = Call("render", <<u>>)

\* C36: deleteNode(n) of a node n other than the root removes n, every
\* descendant of n and the entry for n in its parent's childrenIds, so that
\* afterwards no childrenIds entry and no parentId of a remaining node names a
\* missing node; deleteNode(root) leaves the workspace as it was.
C36_DeleteRemovesSubtree ==
    [][/\ \A n \in NodeIds :
             (Applies(Remove(n)) /\ workspace.state.nodes[n] # 0) =>
                 /\ \A gone \in Below(workspace.objects, workspace.state, {n},
                                      Cardinality(NodeIds)) :
                        workspace'.state.nodes[gone] = 0
                 /\ WellLinked(workspace'.objects, workspace'.state)
       /\ workspace'.last = Call("deleteNode", <<workspace.state.rootId>>) =>
             /\ workspace'.state = workspace.state
             /\ workspace'.objects = workspace.objects
             /\ workspace'.queue = workspace.queue]_vars

\* C37: removeNodeRecursive changes nothing of the state it is given: that
\* state, and the saved snapshot that shares its node objects, hold the same
\* nodes with the same childrenIds after the call as before.
C37_RemoveNonDestructive ==
    [][\A n \in NodeIds :
          Applies(Remove(n)) =>
              /\ View(workspace'.objects, workspace.state)
                    = View(workspace.objects, workspace.state)
              /\ View(workspace'.objects, workspace.savedRef)
                    = View(workspace.objects, workspace.savedRef)]_vars

\* the names, in lower case, of the children a folder of state lists, one
\* for each place of its childrenIds
Listed(objects, state, p) ==
    LET kids == objects[state.nodes[p]].childrenIds
    IN [i \in {j \in DOMAIN kids : state.nodes[kids[j]] # 0} |->
           toLowerCase(objects[state.nodes[kids[i]]].name)]

\* C38: createFile never leaves two children of one folder whose names are
\* equal when case is ignored, also when it is called twice for the folder
\* before the update of the first call is applied.
C38_NoTwoChildrenAlike ==
    \A p \in NodeIds :
        workspace.state.nodes[p] # 0 =>
            LET names == Listed(workspace.objects, workspace.state, p)
            IN \A i \in DOMAIN names, j \in DOMAIN names : i # j => names[i] # names[j]

----------------------------------------------------------------------------
(* getNodePath and listFiles, one loop iteration or one call of walk at a  *)
(* time, on the states that safeParseState lets in                          *)

\* the nodes a stored workspace names, the parents and the children it gives them
StoredIds == {"root", "a"}
StoredParents == {<<>>, <<"root">>, <<"a">>, <<"gone">>}
StoredChildren == {<<>>, <<"a">>, <<"root">>, <<"gone", "a", "a">>}
StoredNodes(id) ==
    {folder(id, p, <<id>>, c) : p \in StoredParents, c \in StoredChildren}
    \cup {file(id, p, <<id>>) : p \in StoredParents}

\* the workspaces a visitor's storage can hold
StoredTrees ==
    {Tree(rootId, nodes) :
        rootId \in {"root", "gone"},
        nodes \in UNION {[ids -> UNION {StoredNodes(id) : id \in ids}] :
                            ids \in {{"root"}, {"a"}, {"root", "a"}}}}

\* the states the hook starts from: those safeParseState returns
ParsedTrees ==
    {safeParseState(stringify(t))[1] :
        t \in {s \in StoredTrees :
                  /\ \A id \in DOMAIN s.nodes : s.nodes[id].id = id
                  /\ safeParseState(stringify(s)) # <<>>}}

\* state.nodes[id]: <<>> is undefined
nodeOf(state, id) == IF id \in DOMAIN state.nodes THEN <<state.nodes[id]>> ELSE <<>>

\* the order of a.path.localeCompare(b.path) on paths of the names used here
RECURSIVE localeCompare(_, _)
localeCompare(a, b) ==
    IF a = <<>> THEN (IF b = <<>> THEN 0 ELSE -1)
    ELSE IF b = <<>> THEN 1
    ELSE IF Head(a) = Head(b) THEN localeCompare(Tail(a), Tail(b))
    ELSE IF Head(a) = "/" \/ (Head(a) = "a" /\ Head(b) # "/") THEN -1 ELSE 1

\* out.sort((a, b) => a.path.localeCompare(b.path)): a stable sort
RECURSIVE sortByPath(_)
sortByPath(out) ==
    IF out = <<>> THEN out
    ELSE LET rest == sortByPath(Tail(out))
             first == Head(out)
             ahead == SelectSeq(rest, LAMBDA d : localeCompare(d.path, first.path) < 0)
             after == SelectSeq(rest, LAMBDA d : localeCompare(d.path, first.path) >= 0)
         IN ahead \o <<first>> \o after

\* parts.reverse()
RECURSIVE reverse(_)
reverse(parts) == IF parts = <<>> THEN parts ELSE Append(reverse(Tail(parts)), Head(parts))

\* names.join('/')
RECURSIVE joinPath(_)
joinPath(names) ==
    IF names = <<>> THEN <<>>
    ELSE IF Len(names) = 1 THEN names[1]
    ELSE names[1] \o <<"/">> \o joinPath(Tail(names))

\* a call of walk(id) that is at entry i of node.childrenIds.forEach
Frame(id, i) == [id |-> id, i |-> i]

\* A call of fn on state.  stack holds the calls of walk that have not
\* returned, cur and parts are the variables of getNodePath while it runs for
\* the node `of`, out is the array of listFiles (of getNodePath called alone,
\* the path it returned).  parts keeps its first MaxParts entries, and more
\* tells whether the entries pushed after them are odd (1) or even (0) in number.
Walking(fn, state, stack, of, cur, parts, out, status) ==
    [fn |-> fn, state |-> state, stack |-> stack, of |-> of, cur |-> cur,
     parts |-> parts, more |-> 0, out |-> out, status |-> status]

\* getNodePath(state, nodeId) before its loop, called for listFiles or alone
entered(w, nodeId) ==
    [w EXCEPT !.of = <<nodeId>>, !.cur = nodeOf(w.state, nodeId), !.parts = <<>>,
              !.more = 0, !.status = "getNodePath"]

WalkInit ==
    /\ FirstRender
    /\ arg = Pending
    /\ ret = Pending
    /\ app = Closed
    /\ localStorage = [k \in StorageKeys |-> NoItem]
    /\ workspace = Unopened
    /\ tabs = Unopened
    /\ \E state \in ParsedTrees :
          \/ walk = Walking("listFiles", state, <<Frame(state.rootId, 0)>>, <<>>, <<>>, <<>>,
                            <<>>, "walk")
          \/ \E nodeId \in StoredIds \cup {"gone"} :
                walk = entered(Walking("getNodePath", state, <<>>, <<>>, <<>>, <<>>, <<>>,
                                       "getNodePath"), nodeId)

\* one test of `while (cur)` and the iteration or the return that follows
getNodePath ==
    /\ walk # Unopened /\ walk.status = "getNodePath"
    /\ IF walk.cur # <<>> /\ walk.cur[1].parentId # <<>>
       THEN walk' = [walk EXCEPT
                        !.parts = IF Len(@) < MaxParts THEN Append(@, walk.cur[1].name) ELSE @,
                        !.more = IF Len(walk.parts) < MaxParts THEN @ ELSE 1 - @,
                        !.cur = nodeOf(walk.state, walk.cur[1].parentId[1])]
       ELSE walk' = [walk EXCEPT
                        !.cur = <<>>,
                        !.parts = <<>>,
                        !.more = 0,
                        !.out = Append(@, [id |-> walk.of[1], path |-> joinPath(reverse(walk.parts))]),
                        !.status = IF walk.fn = "getNodePath" THEN "returned" ELSE "walk"]
    /\ UNCHANGED <<session, pure, app, localStorage, workspace, tabs>>

\* the call of walk on top of the stack: its entry, or the next entry of its
\* forEach; a call deeper than the stack allows raises a RangeError
walk_call ==
    /\ walk # Unopened /\ walk.status = "walk" /\ walk.stack # <<>>
    /\ LET depth == Len(walk.stack)
           top == walk.stack[depth]
           node == nodeOf(walk.state, top.id)
           returns == SubSeq(walk.stack, 1, depth - 1)
       IN IF node = <<>> THEN walk' = [walk EXCEPT !.stack = returns]
          ELSE IF node[1].type = "file"
          THEN walk' = entered([walk EXCEPT !.stack = returns], node[1].id)
          ELSE IF top.i = Len(node[1].childrenIds) THEN walk' = [walk EXCEPT !.stack = returns]
          ELSE IF depth = MaxStack THEN walk' = [walk EXCEPT !.status = "thrown"]
          ELSE walk' = [walk EXCEPT
                           !.stack = Append([@ EXCEPT ![depth].i = top.i + 1],
                                            Frame(node[1].childrenIds[top.i + 1], 0))]
    /\ UNCHANGED <<session, pure, app, localStorage, workspace, tabs>>

\* walk(state.rootId) has returned: listFiles sorts out and returns it
listFiles ==
    /\ walk # Unopened /\ walk.status = "walk" /\ walk.stack = <<>>
    /\ walk' = [walk EXCEPT !.out = sortByPath(@), !.status = "returned"]
    /\ UNCHANGED <<session, pure, app, localStorage, workspace, tabs>>

WalkNext == getNodePath \/ walk_call \/ listFiles

\* a call that has started runs until it returns or throws
WalkSpec == WalkInit /\ [][WalkNext]_vars /\ WF_vars(WalkNext)

\* C39: getNodePath and listFiles terminate on every state safeParseState
\* accepts, also when its parentId or childrenIds links form a cycle or name
\* nodes that are missing.
C39_WalksTerminate == <>(walk.status \in {"returned", "thrown"})

----------------------------------------------------------------------------
(* The tabs of the two editor groups of App *)

\* listFiles(defaultWorkspace): the files in the order of their paths
files == <<"pkg", "readme", "app", "styles", "main", "vite">>

\* the nodes openFile is called for: three of the files, and the folder src
Opens == {"pkg", "readme", "app", "src"}

\* const defaultOpen = files[0]?.id ?? 'readme'
defaultOpen == IF files # <<>> THEN files[1] ELSE "readme"

\* prev.includes(tabId)
includes(prev, tabId) == \E i \in DOMAIN prev : prev[i] = tabId

\* prev.findIndex((t) => t === tabId), counted from 0; -1 when there is none
findIndex(prev, tabId) ==
    IF includes(prev, tabId)
    THEN (CHOOSE i \in DOMAIN prev :
              prev[i] = tabId /\ \A j \in DOMAIN prev : prev[j] = tabId => i <= j) - 1
    ELSE -1

\* prev.filter((t) => t !== tabId)
without(prev, tabId) == SelectSeq(prev, LAMBDA t : t # tabId)

\* list[i] of the array list, i counted from 0: <<>> is undefined
entry(list, i) == IF i + 1 \in DOMAIN list THEN <<list[i + 1]>> ELSE <<>>

\* The state of App after its first render: rightActiveTabId is <<>> (null)
\* or <<id>>
Tabs(leftOpenTabs, leftActiveTabId, rightOpenTabs, rightActiveTabId, activeGroup) ==
    [leftOpenTabs |-> leftOpenTabs, leftActiveTabId |-> leftActiveTabId,
     rightOpenTabs |-> rightOpenTabs, rightActiveTabId |-> rightActiveTabId,
     activeGroup |-> activeGroup]

TabsInit ==
    /\ FirstRender
    /\ arg = Pending
    /\ ret = Pending
    /\ app = Closed
    /\ localStorage = [k \in StorageKeys |-> NoItem]
    /\ workspace = Unopened
    /\ walk = Unopened
    /\ tabs = Tabs(<<defaultOpen>>, defaultOpen, <<>>, <<>>, "left")

\* the tabs of a group, which are the ones its tab bar and its menu show
OpenTabs(group) == IF group = "left" THEN tabs.leftOpenTabs ELSE tabs.rightOpenTabs

\* openFile(tabId), target being activeGroup
openFile(tabId) ==
    /\ tabs # Unopened
    /\ IF tabId \notin {files[i] : i \in DOMAIN files} THEN UNCHANGED tabs
       ELSE IF tabs.activeGroup = "left"
       THEN tabs' = [tabs EXCEPT
                        !.leftOpenTabs = IF includes(@, tabId) THEN @ ELSE Append(@, tabId),
                        !.leftActiveTabId = tabId,
                        !.activeGroup = "left"]
       ELSE tabs' = [tabs EXCEPT
                        !.rightOpenTabs = IF includes(@, tabId) THEN @ ELSE Append(@, tabId),
                        !.rightActiveTabId = <<tabId>>,
                        !.activeGroup = "right"]
    /\ UNCHANGED <<session, pure, app, localStorage, workspace, walk>>

\* onMouseDown of a group's editor: setActiveGroup(group)
setActiveGroup(group) ==
    /\ tabs # Unopened
    /\ tabs' = [tabs EXCEPT !.activeGroup = group]
    /\ UNCHANGED <<session, pure, app, localStorage, workspace, walk>>

\* closeTab(tabId, group) for a tab of the group
closeTab(tabId, group) ==
    /\ tabs # Unopened
    /\ includes(OpenTabs(group), tabId)
    /\ LET prev == OpenTabs(group)
           idx == findIndex(prev, tabId)
           next == without(prev, tabId)
           near == IF entry(next, idx - 1) # <<>> THEN entry(next, idx - 1)
                   ELSE entry(next, idx)
       IN IF group = "left"
          THEN tabs' = [tabs EXCEPT
                           !.leftOpenTabs = next,
                           !.leftActiveTabId =
                               IF @ # tabId THEN @
                               ELSE IF near # <<>> THEN near[1]
                               ELSE IF files # <<>> THEN files[1]
                               ELSE tabId]
          ELSE tabs' = [tabs EXCEPT
                           !.rightOpenTabs = next,
                           !.rightActiveTabId = IF @ # <<tabId>> THEN @ ELSE near]
    /\ UNCHANGED <<session, pure, app, localStorage, workspace, walk>>

\* closeOthers(tabId, group) for a tab of the group
closeOthers(tabId, group) ==
    /\ tabs # Unopened
    /\ includes(OpenTabs(group), tabId)
    /\ IF group = "left"
       THEN tabs' = [tabs EXCEPT !.leftOpenTabs = <<tabId>>, !.leftActiveTabId = tabId]
       ELSE tabs' = [tabs EXCEPT !.rightOpenTabs = <<tabId>>, !.rightActiveTabId = <<tabId>>]
    /\ UNCHANGED <<session, pure, app, localStorage, workspace, walk>>

\* closeToRight(tabId, group) for a tab of the group
closeToRight(tabId, group) ==
    /\ tabs # Unopened
    /\ includes(OpenTabs(group), tabId)
    /\ LET idx == findIndex(OpenTabs(group), tabId)
       IN IF group = "left"
          THEN tabs' = [tabs EXCEPT !.leftOpenTabs = SubSeq(@, 1, idx + 1),
                                    !.leftActiveTabId = tabId]
          ELSE tabs' = [tabs EXCEPT !.rightOpenTabs = SubSeq(@, 1, idx + 1),
                                    !.rightActiveTabId = <<tabId>>]
    /\ UNCHANGED <<session, pure, app, localStorage, workspace, walk>>

\* closeAllTabs(), from the menu of a tab
closeAllTabs ==
    /\ tabs # Unopened
    /\ tabs.leftOpenTabs # <<>> \/ tabs.rightOpenTabs # <<>>
    /\ tabs' = [tabs EXCEPT
                   !.leftOpenTabs = <<>>,
                   !.rightOpenTabs = <<>>,
                   !.leftActiveTabId = IF files # <<>> THEN files[1] ELSE @,
                   !.rightActiveTabId = <<>>]
    /\ UNCHANGED <<session, pure, app, localStorage, workspace, walk>>

\* splitTab(tabId, direction, fromGroup) for a tab of fromGroup, whose menu
\* shows the split entries when the group has two tabs or more
splitTab(tabId, direction, fromGroup) ==
    /\ tabs # Unopened
    /\ includes(OpenTabs(fromGroup), tabId)
    /\ Len(OpenTabs(fromGroup)) >= 2
    /\ LET other(list) == IF without(list, tabId) # <<>> THEN <<without(list, tabId)[1]>>
                          ELSE <<>>
       IN IF direction = "right"
          THEN tabs' = [tabs EXCEPT
                           !.rightOpenTabs = IF includes(@, tabId) THEN @ ELSE Append(@, tabId),
                           !.rightActiveTabId = <<tabId>>,
                           !.leftOpenTabs = IF fromGroup = "left" THEN without(@, tabId) ELSE @,
                           !.leftActiveTabId =
                               IF fromGroup # "left" \/ @ # tabId THEN @
                               ELSE IF other(tabs.leftOpenTabs) # <<>>
                               THEN other(tabs.leftOpenTabs)[1]
                               ELSE IF files # <<>> THEN files[1]
                               ELSE tabId,
                           !.activeGroup = "right"]
          ELSE tabs' = [tabs EXCEPT
                           !.leftOpenTabs = IF includes(@, tabId) THEN @ ELSE Append(@, tabId),
                           !.leftActiveTabId = tabId,
                           !.rightOpenTabs = IF fromGroup = "right" THEN without(@, tabId) ELSE @,
                           !.rightActiveTabId =
                               IF fromGroup # "right" \/ @ # <<tabId>> THEN @
                               ELSE other(tabs.rightOpenTabs),
                           !.activeGroup = "left"]
    /\ UNCHANGED <<session, pure, app, localStorage, workspace, walk>>

TabsNext ==
    \/ \E tabId \in Opens : openFile(tabId)
    \/ \E group \in {"left", "right"} : setActiveGroup(group)
    \/ \E tabId \in Opens, group \in {"left", "right"} : closeTab(tabId, group)
    \/ \E tabId \in Opens, group \in {"left", "right"} : closeOthers(tabId, group)
    \/ \E tabId \in Opens, group \in {"left", "right"} : closeToRight(tabId, group)
    \/ closeAllTabs
    \/ \E tabId \in Opens, direction \in {"left", "right"}, fromGroup \in {"left", "right"} :
          splitTab(tabId, direction, fromGroup)

TabsSpec == TabsInit /\ [][TabsNext]_vars

\* C40: after any sequence of openFile, closeTab, closeOthers, closeToRight,
\* closeAllTabs and splitTab the active tab of the left group is one of the
\* left group's open tabs, and the active tab of the right group is one of
\* the right group's open tabs, or null exactly when the right group has none.
C40_ActiveTabIsOpen ==
    /\ includes(tabs.leftOpenTabs, tabs.leftActiveTabId)
    /\ IF tabs.rightOpenTabs = <<>> THEN tabs.rightActiveTabId = <<>>
       ELSE /\ tabs.rightActiveTabId # <<>>
            /\ includes(tabs.rightOpenTabs, tabs.rightActiveTabId[1])

====
